---------------------------- MODULE Spec2Model ----------------------------
(***************************************************************************)
(* A model of dbgate, a policy-enforcing MySQL proxy.                      *)
(*                                                                         *)
(*   - the SQL classifier (src/parser/sql_parser.cpp),                     *)
(*   - the injection detector (src/parser/injection_detector.cpp),         *)
(*   - the policy evaluator (src/policy/policy_engine.cpp),                *)
(*   - the per-session engine (src/proxy/session.cpp) with its handshake   *)
(*     shell (src/protocol/handshake.cpp),                                 *)
(*   - the server: accept loop, session registry, shutdown and policy      *)
(*     reload (src/proxy/proxy_server.cpp),                                *)
(*   - the policy snapshot shared by evaluate and reload, and a harness    *)
(*     of the handshake state machine.                                     *)
(*                                                                         *)
(* Text is a sequence of byte values (0..255); SQL literals are written    *)
(* with Str(<<"S","E","L",...>>).                                          *)
(***************************************************************************)
EXTENDS Integers, Sequences, FiniteSets, TLC

VARIABLES
    \* ---- SQL classifier harness (SpecParser) ----
    p_pc,          \* "input" | "done"
    p_sql,         \* the SQL handed to SqlParser::parse
    p_result,      \* what parse returned
    p_verdict,     \* the verdict the session pipeline derives from it
    \* ---- policy evaluator harness (SpecPolicy) ----
    pol_pc,        \* "input" | "done"
    pol_config,    \* the snapshot held by config_
    pol_query,     \* the ParsedQuery given to evaluate
    pol_error,     \* the ParseError given to evaluate_error
    pol_session,   \* the SessionContext
    pol_clock,     \* the local time evaluate reads
    pol_call,      \* which entry point ran
    pol_result,    \* the PolicyResult returned
    \* ---- handshake state machine harness (SpecHandshake) ----
    hsm_pc,        \* "input" | "done"
    hsm_state,     \* current_state given to process_handshake_packet
    hsm_payload,   \* payload given to it
    hsm_rounds,    \* round_trips given to it
    hsm_result,    \* what it returned
    \* ---- one proxy session (SpecSession) ----
    run_pc,        \* where Session::run is suspended
    io,            \* the awaited operation: "idle" | "pending" | "ok" | "err"
    rd,            \* which read of read_one_packet is awaited: "hdr" | "payload"
    rx,            \* the packet the current packet read receives
    pkt,           \* pkt of the command loop: the client command in hand
    closing_,      \* Session::closing_
    state_,        \* Session::state_
    ctx_,          \* Session::ctx_ (client_ip, db_user)
    extracted_user, \* relay_handshake: extracted_user
    wire,          \* the write the session awaits: to which peer, which packet
    hs_log,        \* relay_handshake: AuthSwitchRequests sent to the client, packets relayed
                   \* by the running call, the error returned and its state
    hs_state,      \* relay_handshake: state
    round_trips,   \* relay_handshake: round_trips
    relay,         \* relay_server_response: state, column_count,
                   \* column_defs_read, prev_seq_id
    policy_result, \* policy_result of the command in hand
    inj_result,    \* inj_result of the command in hand
    upstream,      \* packets of the command in hand written to the server
    client_err,    \* ERR packets the session built for the command in hand
    stats_on_query, \* how stats_->on_query was called for the command in hand
    relay_open,    \* a command was written upstream and its relayer has not
                   \* returned
    eval_calls,    \* calls of evaluate and evaluate_error so far
    forwarded_no,  \* client commands written to the server so far
    cmd_no,        \* client commands received so far
    conn_log,      \* events given to logger_->log_connection so far
    client_shut,   \* client_socket_ was shut down and closed by run
    server_shut,   \* server_socket_ was shut down and closed by run
    stats_conn,    \* calls of on_connection_open and on_connection_close
    \* ---- the server (SpecServer) ----
    stopping_,     \* ProxyServer::stopping_
    sessions_,     \* ProxyServer::sessions_: the registered session ids
    next_session_id_, \* ProxyServer::next_session_id_
    io_stopped,    \* io_ctx_->stop() was called: ioc.run() returns
    acc_pc,        \* where the accept loop is suspended
    acc_ec,        \* ec of the async_accept that completed
    acc_conn,      \* the connection client_sock holds, 0 for none
    arrivals,      \* connections that reached the listening socket so far
    conn_fate,     \* what became of each connection
    after_stop,    \* the connections accepted after stop() was called
    sess,          \* the run of each session created: its awaited operation
                   \* and its closing_ flag
    health,        \* HealthCheck status
    uds_running,   \* the UdsServer runs
    max_connections, \* config_.max_connections
    \* ---- the policy engine and its reloads (SpecEngine) ----
    config_,       \* PolicyEngine::config_
    policy_file,   \* what PolicyLoader::load finds at config_.policy_path
    reload_outcome, \* how the last policy_reload ended: "reloaded" | "kept"
    reloaded,      \* the snapshot the last call of PolicyEngine::reload was given
    ev,            \* per thread: its call of PolicyEngine::evaluate
    \* ---- the statistics collector (SpecStats) ----
    total_connections_, \* StatsCollector::total_connections_
    active_sessions_,   \* StatsCollector::active_sessions_
    total_queries_,     \* StatsCollector::total_queries_
    blocked_queries_,   \* StatsCollector::blocked_queries_
    window_queries_,    \* StatsCollector::window_queries_
    caller,        \* per thread: where its call of an update method stands,
                   \* current of on_connection_close, its calls so far and
                   \* the opens it has not closed
    reader_pc,     \* where the call of snapshot() stands
    snap_locals,   \* the values snapshot() has loaded so far
    snap,          \* the StatsSnapshot snapshot() returned last
    opened,        \* calls of on_connection_open so far
    unpaired,      \* some thread called on_connection_close with no open
                   \* of its own left to close
    \* ---- MysqlPacket harness (SpecPacket) ----
    pk_pc,         \* "input" | "parsed" | "serialized"
    pk_data,       \* the bytes given to MysqlPacket::parse
    pk_packet,     \* what parse returned
    pk_bytes,      \* what serialize returned for it
    \* ---- relay_server_response on a result set (SpecResultSet) ----
    rs_pc,         \* "relaying" | "returned"
    rs_set,        \* the result set the server sends, and the request
    rs_read,       \* the packets of it read and passed on so far
    rs_relay       \* state, column_count, column_defs_read, prev_seq_id

parserVars == <<p_pc, p_sql, p_result, p_verdict>>

policyVars == <<pol_pc, pol_config, pol_query, pol_error, pol_session, pol_clock,
                pol_call, pol_result>>

sessionVars == <<run_pc, io, rd, rx, pkt, closing_, state_, ctx_, extracted_user, hs_log, wire,
                 hs_state, round_trips, relay, policy_result, inj_result,
                 upstream, client_err, stats_on_query, relay_open, eval_calls,
                 forwarded_no, cmd_no, conn_log, client_shut, server_shut,
                 stats_conn>>

serverVars == <<stopping_, sessions_, next_session_id_, io_stopped, acc_pc, acc_ec,
                acc_conn, arrivals, conn_fate, after_stop, sess, health,
                uds_running, max_connections>>

engineVars == <<config_, policy_file, reload_outcome, reloaded, ev>>

machineVars == <<hsm_pc, hsm_state, hsm_payload, hsm_rounds, hsm_result>>

statsVars == <<total_connections_, active_sessions_, total_queries_, blocked_queries_,
               window_queries_, caller, reader_pc, snap_locals, snap, opened, unpaired>>

packetVars == <<pk_pc, pk_data, pk_packet, pk_bytes>>

resultSetVars == <<rs_pc, rs_set, rs_read, rs_relay>>

vars == <<parserVars, policyVars, sessionVars, serverVars, engineVars, machineVars,
          statsVars, packetVars, resultSetVars>>

\* What the actions of one part of the program leave alone.
nonParserVars == <<policyVars, sessionVars, serverVars, engineVars, machineVars,
    statsVars, packetVars, resultSetVars>>

nonPolicyVars == <<parserVars, sessionVars, serverVars, engineVars, machineVars,
    statsVars, packetVars, resultSetVars>>

nonSessionVars == <<parserVars, policyVars, serverVars, engineVars, machineVars,
    statsVars, packetVars, resultSetVars>>

nonServerVars == <<parserVars, policyVars, sessionVars, engineVars, machineVars,
    statsVars, packetVars, resultSetVars>>

nonEngineVars == <<parserVars, policyVars, sessionVars, serverVars, machineVars,
    statsVars, packetVars, resultSetVars>>

nonMachineVars == <<parserVars, policyVars, sessionVars, serverVars, engineVars,
    statsVars, packetVars, resultSetVars>>

nonStatsVars == <<parserVars, policyVars, sessionVars, serverVars, engineVars,
    machineVars, packetVars, resultSetVars>>

nonPacketVars == <<parserVars, policyVars, sessionVars, serverVars, engineVars,
    machineVars, statsVars, resultSetVars>>

nonResultSetVars == <<parserVars, policyVars, sessionVars, serverVars, engineVars,
    machineVars, statsVars, packetVars>>

(***************************************************************************)
(* Bytes and text                                                          *)
(***************************************************************************)
Printable ==
    << " ", "!", "\"", "#", "$", "%", "&", "'", "(", ")", "*", "+", ",", "-", ".", "/",
       "0", "1", "2", "3", "4", "5", "6", "7", "8", "9", ":", ";", "<", "=", ">", "?",
       "@", "A", "B", "C", "D", "E", "F", "G", "H", "I", "J", "K", "L", "M", "N", "O",
       "P", "Q", "R", "S", "T", "U", "V", "W", "X", "Y", "Z", "[", "\\", "]", "^", "_",
       "bq", "a", "b", "c", "d", "e", "f", "g", "h", "i", "j", "k", "l", "m", "n", "o",
       "p", "q", "r", "s", "t", "u", "v", "w", "x", "y", "z", "{", "|", "}", "~" >>

\* The byte value of a character: printable ASCII starts at 32 ("bq" stands
\* for the backquote, 96); "\n" is 10, "\t" is 9 and "\r" is 13.
Ord(c) ==
    IF c = "\n" THEN 10
    ELSE IF c = "\t" THEN 9
    ELSE IF c = "\r" THEN 13
    ELSE 31 + (CHOOSE i \in 1..Len(Printable) : Printable[i] = c)

Str(t) == [i \in 1..Len(t) |-> Ord(t[i])]

\* The bytes the classifier, the detector and the evaluator look for.
chHash == Ord("#")

chQuote == Ord("'")

chLParen == Ord("(")

chStar == Ord("*")

chPlus == Ord("+")

chComma == Ord(",")

chMinus == Ord("-")

chDot == Ord(".")

chSlash == Ord("/")

chZero == Ord("0")

chColon == Ord(":")

chSemicolon == Ord(";")

chDQuote == Ord("\"")

chBackslash == Ord("\\")

chUnderscore == Ord("_")

chBackquote == Ord("bq")

Min(a, b) == IF a < b THEN a ELSE b

SetMax(S) == CHOOSE x \in S : \A y \in S : y <= x

SetMin(S) == CHOOSE x \in S : \A y \in S : x <= y

\* std::isspace in the "C" locale: space, \t, \n, \v, \f, \r.
IsSpace(c) == c = 32 \/ (c >= 9 /\ c <= 13)

IsUpperCh(c) == c >= 65 /\ c <= 90

IsLowerCh(c) == c >= 97 /\ c <= 122

IsDigitCh(c) == c >= 48 /\ c <= 57

IsAlnum(c) == IsUpperCh(c) \/ IsLowerCh(c) \/ IsDigitCh(c)

ToUpperCh(c) == IF IsLowerCh(c) THEN c - 32 ELSE c

ToLowerCh(c) == IF IsUpperCh(c) THEN c + 32 ELSE c

to_upper(s) == [i \in 1..Len(s) |-> ToUpperCh(s[i])]

\* Case-insensitive equality of two texts.
iequals(a, b) ==
    /\ Len(a) = Len(b)
    /\ \A i \in 1..Len(a) : ToLowerCh(a[i]) = ToLowerCh(b[i])

\* std::string::find(needle, from), positions 0-based; -1 is npos.
FindFrom(s, needle, from) ==
    LET hits == { p \in from..(Len(s) - Len(needle)) :
                     \A k \in 1..Len(needle) : s[p + k] = needle[k] }
    IN  IF hits = {} THEN -1 ELSE SetMin(hits)

\* trim: drop leading and trailing std::isspace bytes.
trim(s) ==
    LET keep == { i \in 1..Len(s) : ~IsSpace(s[i]) }
    IN  IF keep = {} THEN <<>> ELSE SubSeq(s, SetMin(keep), SetMax(keep))

(***************************************************************************)
(* Regular expressions (std::regex, ECMAScript grammar).  A compiled       *)
(* pattern is a tree; Ends(r, s, i) is the set of positions at which a     *)
(* match of r that starts at position i of s (1-based, next byte to read)  *)
(* can end.                                                                *)
(***************************************************************************)
RSet(S) == [t |-> "set", s |-> S]

RCat(rs) == [t |-> "cat", rs |-> rs]

RAlt(rs) == [t |-> "alt", rs |-> rs]

RStar(r) == [t |-> "star", r |-> r]

RPlus(r) == RCat(<<r, RStar(r)>>)

ROpt(r) == RAlt(<<r, RCat(<<>>)>>)

REol == [t |-> "eol"]

RWordB == [t |-> "wordb"]

\* A literal under std::regex_constants::icase.
RLitI(s) == RCat([i \in 1..Len(s) |-> RSet({ToUpperCh(s[i]), ToLowerCh(s[i])})])

\* A literal matched case-sensitively.
RLit(s) == RCat([i \in 1..Len(s) |-> RSet({s[i]})])

ClassSpace == { c \in 0..255 : IsSpace(c) }

ClassDigit == { c \in 0..255 : IsDigitCh(c) }

ClassWord == { c \in 0..255 : IsAlnum(c) \/ c = chUnderscore }

\* "." matches any byte but a line terminator.
ClassDot == (0..255) \ {10, 13}

RECURSIVE Ends(_, _, _), CatEnds(_, _, _, _), StarEnds(_, _, _, _)
Ends(r, s, i) ==
    CASE r.t = "set"   -> IF i <= Len(s) /\ s[i] \in r.s THEN {i + 1} ELSE {}
      [] r.t = "cat"   -> CatEnds(r.rs, 1, s, {i})
      [] r.t = "alt"   -> UNION { Ends(r.rs[k], s, i) : k \in 1..Len(r.rs) }
      [] r.t = "star"  -> StarEnds(r.r, s, {i}, {i})
      [] r.t = "eol"   -> IF i = Len(s) + 1 THEN {i} ELSE {}
      [] r.t = "wordb" ->
            LET before == i > 1 /\ s[i - 1] \in ClassWord
                after  == i <= Len(s) /\ s[i] \in ClassWord
            IN  IF before # after THEN {i} ELSE {}

CatEnds(rs, k, s, P) ==
    IF k > Len(rs) \/ P = {} THEN P
    ELSE CatEnds(rs, k + 1, s, UNION { Ends(rs[k], s, p) : p \in P })

\* seen: every end reached so far; frontier: those not yet extended.
StarEnds(r, s, seen, frontier) ==
    LET more == (UNION { Ends(r, s, p) : p \in frontier }) \ seen
    IN  IF more = {} THEN seen ELSE StarEnds(r, s, seen \cup more, more)

\* std::regex_search: a match starting anywhere.
regex_search(s, r) == \E i \in 1..(Len(s) + 1) : Ends(r, s, i) # {}

(***************************************************************************)
(* SQL classifier: src/parser/sql_parser.cpp                               *)
(***************************************************************************)
\* sql[i] with the source 0-based index.
At(s, i) == s[i + 1]

\* The inner loop of a block comment: from i (0-based) to the index after the
\* closing "*/", or to where the loop guard i + 1 < len stops it.
RECURSIVE BlockCommentEnd(_, _)
BlockCommentEnd(sql, i) ==
    IF ~(i + 1 < Len(sql)) THEN i
    ELSE IF At(sql, i) = chStar /\ At(sql, i + 1) = chSlash THEN i + 2
    ELSE BlockCommentEnd(sql, i + 1)

\* The inner loop of a line comment: the index of the next "\n", or len.
RECURSIVE LineCommentEnd(_, _)
LineCommentEnd(sql, i) ==
    IF i < Len(sql) /\ At(sql, i) # 10 THEN LineCommentEnd(sql, i + 1) ELSE i

RECURSIVE RemoveCommentsFrom(_, _, _)
RemoveCommentsFrom(sql, i, result) ==
    IF ~(i < Len(sql)) THEN result
    ELSE IF i + 1 < Len(sql) /\ At(sql, i) = chSlash /\ At(sql, i + 1) = chStar
         THEN RemoveCommentsFrom(sql, BlockCommentEnd(sql, i + 2), Append(result, 32))
    ELSE IF i + 1 < Len(sql) /\ At(sql, i) = chMinus /\ At(sql, i + 1) = chMinus
         THEN RemoveCommentsFrom(sql, LineCommentEnd(sql, i), result)
    ELSE IF At(sql, i) = chHash
         THEN RemoveCommentsFrom(sql, LineCommentEnd(sql, i), result)
    ELSE RemoveCommentsFrom(sql, i + 1, Append(result, At(sql, i)))

remove_comments(sql) == RemoveCommentsFrom(sql, 0, <<>>)

\* The first token of the trimmed text, up to the first of " \t\r\n".
extract_first_keyword(normalized_sql) ==
    LET trimmed == trim(normalized_sql)
        stops   == { p \in 1..Len(trimmed) : trimmed[p] \in {32, 9, 13, 10} }
    IN  IF trimmed = <<>> THEN <<>>
        ELSE IF stops = {} THEN trimmed
        ELSE SubSeq(trimmed, 1, SetMin(stops) - 1)

kKeywordMap ==
    << <<Str(<<"S","E","L","E","C","T">>),         "kSelect">>,
       <<Str(<<"I","N","S","E","R","T">>),         "kInsert">>,
       <<Str(<<"U","P","D","A","T","E">>),         "kUpdate">>,
       <<Str(<<"D","E","L","E","T","E">>),         "kDelete">>,
       <<Str(<<"D","R","O","P">>),                 "kDrop">>,
       <<Str(<<"T","R","U","N","C","A","T","E">>), "kTruncate">>,
       <<Str(<<"A","L","T","E","R">>),             "kAlter">>,
       <<Str(<<"C","R","E","A","T","E">>),         "kCreate">>,
       <<Str(<<"C","A","L","L">>),                 "kCall">>,
       <<Str(<<"P","R","E","P","A","R","E">>),     "kPrepare">>,
       <<Str(<<"E","X","E","C","U","T","E">>),     "kExecute">> >>

keyword_to_command(keyword) ==
    LET hit == { k \in 1..Len(kKeywordMap) : kKeywordMap[k][1] = keyword }
    IN  IF hit = {} THEN "kUnknown" ELSE kKeywordMap[CHOOSE k \in hit : TRUE][2]

is_table_name_char(c) == IsAlnum(c) \/ c = chUnderscore \/ c = chDot \/ c = chBackquote

\* keyword + "\s+(`?[\w.]+`?(?:\s*,\s*`?[\w.]+`?)*)", split where group 1 opens.
TableNameRe ==
    RCat(<< ROpt(RSet({chBackquote})),
            RPlus(RSet(ClassWord \cup {chDot})),
            ROpt(RSet({chBackquote})) >>)

TableListRe ==
    RCat(<< TableNameRe,
            RStar(RCat(<< RStar(RSet(ClassSpace)), RSet({chComma}),
                          RStar(RSet(ClassSpace)), TableNameRe >>)) >>)

\* The match of the table pattern that starts at i, as <<start of group 1,
\* end of match>> (greedy quantifiers: the longest list), or <<>> if none.
TableMatchAt(s, keyword_re, i) ==
    LET afterKw == Ends(keyword_re, s, i)
        opens   == { g \in afterKw : Ends(TableListRe, s, g) # {} }
    IN  IF opens = {} THEN <<>>
        ELSE LET g == SetMax(opens)
             IN  <<g, SetMax(Ends(TableListRe, s, g))>>

\* The case-preserving lookup of a token in the original SQL (lines 250-278).
RECURSIVE RecoverCase(_, _, _)
RecoverCase(orig_str, trimmed_token, search_from) ==
    LET upper_token == to_upper(trimmed_token)
        orig_upper  == to_upper(orig_str)
        n           == Len(upper_token)
        found       == FindFrom(orig_upper, upper_token, search_from)
        valid_start == found = 0 \/ ~is_table_name_char(At(orig_str, found - 1))
        valid_end   == found + n >= Len(orig_str)
                          \/ ~is_table_name_char(At(orig_str, found + n))
    IN  IF ~(search_from < Len(orig_upper)) \/ found = -1 THEN trimmed_token
        ELSE IF valid_start /\ valid_end THEN SubSeq(orig_str, found + 1, found + n)
        ELSE RecoverCase(orig_str, trimmed_token, found + 1)

StripBackticks(t) ==
    LET a == IF t # <<>> /\ Head(t) = chBackquote THEN Tail(t) ELSE t
    IN  IF a # <<>> /\ a[Len(a)] = chBackquote THEN SubSeq(a, 1, Len(a) - 1) ELSE a

\* One token of the comma-separated list, added to out_tables unless it is
\* empty, opens a subquery, or is already there (case-insensitively).
AddTableToken(token, original_sql, out_tables) ==
    LET trimmed_token == StripBackticks(trim(token))
        final_name    == RecoverCase(original_sql, trimmed_token, 0)
    IN  IF trim(token) = <<>> THEN out_tables
        ELSE IF trimmed_token = <<>> \/ Head(trimmed_token) = chLParen THEN out_tables
        ELSE IF \E k \in 1..Len(out_tables) :
                    to_upper(out_tables[k]) = to_upper(final_name)
             THEN out_tables
        ELSE Append(out_tables, final_name)

\* The while loop over table_list (lines 208-292); pos is 0-based.
RECURSIVE SplitTableList(_, _, _, _)
SplitTableList(table_list, pos, original_sql, out_tables) ==
    LET n      == Len(table_list)
        rest   == { q \in pos..(n - 1) : ~IsSpace(At(table_list, q)) }
        start  == IF rest = {} THEN n ELSE SetMin(rest)
        comma  == FindFrom(table_list, <<chComma>>, start)
    IN  IF ~(pos <= n) \/ start >= n THEN out_tables
        ELSE IF comma = -1
             THEN AddTableToken(SubSeq(table_list, start + 1, n),
                                original_sql, out_tables)
        ELSE SplitTableList(table_list, comma + 1, original_sql,
                            AddTableToken(SubSeq(table_list, start + 1, comma),
                                          original_sql, out_tables))

\* The sregex_iterator loop: successive non-overlapping leftmost matches.
RECURSIVE TablesFrom(_, _, _, _, _)
TablesFrom(normalized_sql, original_sql, keyword_re, from, out_tables) ==
    LET starts == { i \in from..Len(normalized_sql) :
                       TableMatchAt(normalized_sql, keyword_re, i) # <<>> }
    IN  IF starts = {} THEN out_tables
        ELSE LET m == TableMatchAt(normalized_sql, keyword_re, SetMin(starts))
             IN  TablesFrom(normalized_sql, original_sql, keyword_re, m[2],
                            SplitTableList(SubSeq(normalized_sql, m[1], m[2] - 1), 0,
                                           original_sql, out_tables))

extract_tables_for_keyword(normalized_sql, original_sql, keyword, out_tables) ==
    TablesFrom(normalized_sql, original_sql,
               RCat(<<RLitI(keyword), RPlus(RSet(ClassSpace))>>), 1, out_tables)

\* "\bWHERE\b", case-sensitive.
WhereRe == RCat(<<RWordB, RLit(Str(<<"W","H","E","R","E">>)), RWordB>>)

has_where_keyword(normalized_sql) == regex_search(normalized_sql, WhereRe)

\* The six-state scan (lines 346-412), i 0-based; an index increment inside a
\* case adds to the increment of the for statement.
RECURSIVE ScanSemicolon(_, _, _)
ScanSemicolon(sql, i, state) ==
    IF ~(i < Len(sql)) THEN FALSE
    ELSE
      LET c    == At(sql, i)
          next == IF i + 1 < Len(sql) THEN At(sql, i + 1) ELSE 0
      IN  CASE state = "kNormal" ->
                 IF c = chQuote THEN ScanSemicolon(sql, i + 1, "kSingleQuote")
                 ELSE IF c = chDQuote THEN ScanSemicolon(sql, i + 1, "kDoubleQuote")
                 ELSE IF c = chSlash /\ next = chStar
                      THEN ScanSemicolon(sql, i + 2, "kBlockComment")
                 ELSE IF c = chMinus /\ next = chMinus
                      THEN ScanSemicolon(sql, i + 2, "kLineComment")
                 ELSE IF c = chHash THEN ScanSemicolon(sql, i + 1, "kHashComment")
                 ELSE IF c = chSemicolon THEN TRUE
                 ELSE ScanSemicolon(sql, i + 1, "kNormal")
            [] state = "kSingleQuote" ->
                 IF c = chBackslash THEN ScanSemicolon(sql, i + 2, state)
                 ELSE IF c = chQuote /\ next = chQuote
                      THEN ScanSemicolon(sql, i + 2, state)
                 ELSE IF c = chQuote THEN ScanSemicolon(sql, i + 1, "kNormal")
                 ELSE ScanSemicolon(sql, i + 1, state)
            [] state = "kDoubleQuote" ->
                 IF c = chBackslash THEN ScanSemicolon(sql, i + 2, state)
                 ELSE IF c = chDQuote /\ next = chDQuote
                      THEN ScanSemicolon(sql, i + 2, state)
                 ELSE IF c = chDQuote THEN ScanSemicolon(sql, i + 1, "kNormal")
                 ELSE ScanSemicolon(sql, i + 1, state)
            [] state = "kBlockComment" ->
                 IF c = chStar /\ next = chSlash
                 THEN ScanSemicolon(sql, i + 2, "kNormal")
                 ELSE ScanSemicolon(sql, i + 1, state)
            [] state \in {"kLineComment", "kHashComment"} ->
                 IF c = 10 THEN ScanSemicolon(sql, i + 1, "kNormal")
                 ELSE ScanSemicolon(sql, i + 1, state)

\* The classifier with the multi-statement check taken out.
no_semicolon_check(sql) == FALSE

has_semicolon_outside_string_or_comment(sql) == ScanSemicolon(sql, 0, "kNormal")

ParseFailure(message, sql) ==
    [ok |-> FALSE, code |-> "kInvalidSql", message |-> message, context |-> sql]

\* The keywords after which table names are looked up, per command.
kwFrom == Str(<<"F","R","O","M">>)

kwJoin == Str(<<"J","O","I","N">>)

kwInto == Str(<<"I","N","T","O">>)

kwUpdate == Str(<<"U","P","D","A","T","E">>)

kwTable == Str(<<"T","A","B","L","E">>)

TableKeywords(cmd) ==
    CASE cmd \in {"kSelect", "kDelete"} -> <<kwFrom, kwJoin>>
      [] cmd = "kInsert" -> <<kwInto>>
      [] cmd = "kUpdate" -> <<kwUpdate, kwJoin>>
      [] cmd \in {"kDrop", "kTruncate", "kAlter", "kCreate"} -> <<kwTable>>
      [] OTHER -> <<>>

RECURSIVE ExtractTables(_, _, _, _, _)
ExtractTables(normalized_str, sql, keywords, k, tables) ==
    IF k > Len(keywords) THEN tables
    ELSE ExtractTables(normalized_str, sql, keywords, k + 1,
            extract_tables_for_keyword(normalized_str, sql, keywords[k], tables))

\* SqlParser::parse
parse(sql) ==
    LET no_comments        == remove_comments(sql)
        normalized         == to_upper(no_comments)
        normalized_trimmed == trim(normalized)
        first_kw           == extract_first_keyword(normalized_trimmed)
        cmd                == keyword_to_command(first_kw)
    IN  IF trim(sql) = <<>> THEN ParseFailure("Empty SQL input", sql)
        ELSE IF has_semicolon_outside_string_or_comment(sql)
             THEN ParseFailure("Multi-statement SQL detected", sql)
        ELSE IF normalized_trimmed = <<>>
             THEN ParseFailure("SQL is empty after comment removal", sql)
        ELSE [ok               |-> TRUE,
              command          |-> cmd,
              tables           |-> ExtractTables(normalized_trimmed, sql,
                                                 TableKeywords(cmd), 1, <<>>),
              raw_sql          |-> sql,
              has_where_clause |-> has_where_keyword(normalized_trimmed)]

(***************************************************************************)
(* Injection detector: src/parser/injection_detector.cpp, constructed by   *)
(* the session with kDefaultInjectionPatterns.  A pattern is its source    *)
(* text, whether std::regex accepts it, and its compiled form.             *)
(***************************************************************************)
Pattern(source, re) == [source |-> source, valid |-> TRUE, re |-> re]

InvalidPattern(source) == [source |-> source, valid |-> FALSE, re |-> RCat(<<>>)]

Sp0 == RStar(RSet(ClassSpace))

Sp1 == RPlus(RSet(ClassSpace))

Lit(t) == RLitI(Str(t))

kDefaultInjectionPatterns ==
    << Pattern("UNION\\s+SELECT",
               RCat(<<Lit(<<"U","N","I","O","N">>), Sp1, Lit(<<"S","E","L","E","C","T">>)>>)),
       Pattern("('\\s*OR\\s+['\"\\d])",
               RCat(<<Lit(<<"'">>), Sp0, Lit(<<"O","R">>), Sp1,
                      RSet({chQuote, chDQuote} \cup ClassDigit)>>)),
       Pattern("SLEEP\\s*\\(",
               RCat(<<Lit(<<"S","L","E","E","P">>), Sp0, Lit(<<"(">>)>>)),
       Pattern("BENCHMARK\\s*\\(",
               RCat(<<Lit(<<"B","E","N","C","H","M","A","R","K">>), Sp0, Lit(<<"(">>)>>)),
       Pattern("LOAD_FILE\\s*\\(",
               RCat(<<Lit(<<"L","O","A","D","_","F","I","L","E">>), Sp0, Lit(<<"(">>)>>)),
       Pattern("INTO\\s+OUTFILE",
               RCat(<<Lit(<<"I","N","T","O">>), Sp1, Lit(<<"O","U","T","F","I","L","E">>)>>)),
       Pattern("INTO\\s+DUMPFILE",
               RCat(<<Lit(<<"I","N","T","O">>), Sp1, Lit(<<"D","U","M","P","F","I","L","E">>)>>)),
       Pattern(";\\s*(DROP|DELETE|UPDATE|INSERT|ALTER|CREATE)",
               RCat(<<Lit(<<";">>), Sp0,
                      RAlt(<<Lit(<<"D","R","O","P">>), Lit(<<"D","E","L","E","T","E">>),
                             Lit(<<"U","P","D","A","T","E">>), Lit(<<"I","N","S","E","R","T">>),
                             Lit(<<"A","L","T","E","R">>), Lit(<<"C","R","E","A","T","E">>)>>)>>)),
       Pattern("--\\s*$", RCat(<<Lit(<<"-","-">>), Sp0, REol>>)),
       Pattern("/\\*.*\\*/",
               RCat(<<Lit(<<"/","*">>), RStar(RSet(ClassDot)), Lit(<<"*","/">>)>>)) >>

\* The constructor: patterns std::regex rejects are dropped.
CompilePatterns(patterns) == SelectSeq(patterns, LAMBDA p : p.valid)

\* InjectionDetector::check over the compiled patterns.
InjectionCheck(compiled_patterns, sql) ==
    LET fail_close_active == compiled_patterns = <<>>
        hits == { k \in 1..Len(compiled_patterns) :
                     regex_search(sql, compiled_patterns[k].re) }
    IN  IF fail_close_active
        THEN [detected |-> TRUE, matched_pattern |-> "",
              reason |-> "no valid patterns loaded"]
        ELSE IF hits # {}
        THEN [detected |-> TRUE,
              matched_pattern |-> compiled_patterns[SetMin(hits)].source,
              reason |-> "Matched injection pattern"]
        ELSE [detected |-> FALSE, matched_pattern |-> "", reason |-> ""]

\* injection_detector_.check(sql) of a session.
compiled_patterns_ == CompilePatterns(kDefaultInjectionPatterns)

injection_check(sql) == InjectionCheck(compiled_patterns_, sql)

(***************************************************************************)
(* Policy evaluator: src/policy/policy_engine.cpp                          *)
(***************************************************************************)
kCommandNames ==
    [kSelect   |-> Str(<<"S","E","L","E","C","T">>),
     kInsert   |-> Str(<<"I","N","S","E","R","T">>),
     kUpdate   |-> Str(<<"U","P","D","A","T","E">>),
     kDelete   |-> Str(<<"D","E","L","E","T","E">>),
     kDrop     |-> Str(<<"D","R","O","P">>),
     kTruncate |-> Str(<<"T","R","U","N","C","A","T","E">>),
     kAlter    |-> Str(<<"A","L","T","E","R">>),
     kCreate   |-> Str(<<"C","R","E","A","T","E">>),
     kCall     |-> Str(<<"C","A","L","L">>),
     kPrepare  |-> Str(<<"P","R","E","P","A","R","E">>),
     kExecute  |-> Str(<<"E","X","E","C","U","T","E">>),
     kUnknown  |-> Str(<<"U","N","K","N","O","W","N">>)]

command_to_string(cmd) ==
    IF cmd \in DOMAIN kCommandNames THEN kCommandNames[cmd]
    ELSE kCommandNames["kUnknown"]

\* The value of a run of decimal digits.
RECURSIVE DigitsValue(_)
DigitsValue(ds) ==
    IF ds = <<>> THEN 0
    ELSE 10 * DigitsValue(SubSeq(ds, 1, Len(ds) - 1)) + (ds[Len(ds)] - 48)

\* std::stoi(s, &idx): leading whitespace, an optional sign, then digits;
\* ok is FALSE where stoi throws.  Texts here are short, so out_of_range
\* does not arise.
stoi(s) ==
    LET nonsp  == { p \in 1..Len(s) : ~IsSpace(s[p]) }
        first  == IF nonsp = {} THEN Len(s) + 1 ELSE SetMin(nonsp)
        signed == first <= Len(s) /\ s[first] \in {chPlus, chMinus}
        d0     == IF signed THEN first + 1 ELSE first
        stops  == { p \in d0..Len(s) : ~IsDigitCh(s[p]) }
        d1     == IF stops = {} THEN Len(s) + 1 ELSE SetMin(stops)
        mag    == DigitsValue(SubSeq(s, d0, d1 - 1))
    IN  IF d1 = d0 THEN [ok |-> FALSE, value |-> 0, idx |-> 0]
        ELSE [ok    |-> TRUE,
              value |-> IF signed /\ s[first] = chMinus THEN 0 - mag ELSE mag,
              idx   |-> d1 - 1]

\* The pieces of s between the bytes equal to sep.
RECURSIVE SplitOn(_, _)
SplitOn(s, sep) ==
    LET p == FindFrom(s, <<sep>>, 0)
    IN  IF p = -1 THEN <<s>>
        ELSE <<SubSeq(s, 1, p)>> \o SplitOn(SubSeq(s, p + 2, Len(s)), sep)

\* inet_pton(AF_INET, ...): four decimal octets 0..255, one to three digits,
\* no leading zero; <<>> where it does not return 1.
inet_pton(s) ==
    LET parts == SplitOn(s, chDot)
        okPart(t) == /\ Len(t) \in 1..3
                     /\ \A k \in 1..Len(t) : IsDigitCh(t[k])
                     /\ (Len(t) > 1 => t[1] # chZero)
                     /\ DigitsValue(t) <= 255
    IN  IF Len(parts) = 4 /\ \A k \in 1..4 : okPart(parts[k])
        THEN [k \in 1..4 |-> DigitsValue(parts[k])]
        ELSE <<>>

Pow2(n) == IF n = 0 THEN 1 ELSE IF n = 1 THEN 2 ELSE IF n = 2 THEN 4
           ELSE IF n = 3 THEN 8 ELSE IF n = 4 THEN 16 ELSE IF n = 5 THEN 32
           ELSE IF n = 6 THEN 64 ELSE IF n = 7 THEN 128 ELSE 256

\* (ip & mask) == (net & mask), octet by octet in network order.
ip_in_cidr(ip, cidr) ==
    LET slash_pos   == FindFrom(cidr, <<chSlash>>, 0)
        network_str == SubSeq(cidr, 1, slash_pos)
        prefix_str  == SubSeq(cidr, slash_pos + 2, Len(cidr))
        prefix      == stoi(prefix_str)
        prefix_len  == prefix.value
        ip_addr     == inet_pton(ip)
        net_addr    == inet_pton(network_str)
        bits(k)     == IF prefix_len >= 8 * k THEN 8
                       ELSE IF prefix_len <= 8 * (k - 1) THEN 0
                       ELSE prefix_len - 8 * (k - 1)
        drop(k)     == Pow2(8 - bits(k))
    IN  IF slash_pos = -1 THEN FALSE
        ELSE IF ~prefix.ok THEN FALSE
        ELSE IF prefix.idx # Len(prefix_str) \/ prefix_len < 0 \/ prefix_len > 32
             THEN FALSE
        ELSE IF ip_addr = <<>> THEN FALSE
        ELSE IF net_addr = <<>> THEN FALSE
        ELSE \A k \in 1..4 : ip_addr[k] \div drop(k) = net_addr[k] \div drop(k)

\* The lambda of parse_time_range: "H:M" to <<hour, min>>, <<>> on failure.
parse_hhmm(hhmm) ==
    LET colon_pos == FindFrom(hhmm, <<chColon>>, 0)
        hour      == stoi(SubSeq(hhmm, 1, colon_pos))
        min       == stoi(SubSeq(hhmm, colon_pos + 2, Len(hhmm)))
    IN  IF colon_pos = -1 THEN <<>>
        ELSE IF ~hour.ok \/ ~min.ok THEN <<>>
        ELSE IF hour.value >= 0 /\ hour.value <= 23 /\ min.value >= 0 /\ min.value <= 59
             THEN <<hour.value, min.value>>
        ELSE <<>>

\* "HH:MM-HH:MM" to a TimeRange; [ok |-> FALSE] is std::nullopt.
parse_time_range(range_str) ==
    LET dash_pos == FindFrom(range_str, <<chMinus>>, 1)
        start    == parse_hhmm(SubSeq(range_str, 1, dash_pos))
        end      == parse_hhmm(SubSeq(range_str, dash_pos + 2, Len(range_str)))
    IN  IF Len(range_str) < 7 THEN [ok |-> FALSE]
        ELSE IF dash_pos = -1 THEN [ok |-> FALSE]
        ELSE IF start = <<>> THEN [ok |-> FALSE]
        ELSE IF end = <<>> THEN [ok |-> FALSE]
        ELSE [ok |-> TRUE, start_h |-> start[1], start_m |-> start[2],
              end_h |-> end[1], end_m |-> end[2]]

\* A time check that admits every hour.
always_within(range, clock) == TRUE

\* clock is what localtime_r delivers in the zone of the rule: ok is FALSE
\* when it returns nullptr, minutes is tm_hour * 60 + tm_min.
is_within_time_range(range, clock) ==
    LET now_minutes   == clock.minutes
        start_minutes == range.start_h * 60 + range.start_m
        end_minutes   == range.end_h * 60 + range.end_m
    IN  IF ~clock.ok THEN FALSE
        ELSE IF start_minutes <= end_minutes
             THEN now_minutes >= start_minutes /\ now_minutes < end_minutes
        ELSE now_minutes >= start_minutes \/ now_minutes < end_minutes

Star == Str(<<"*">>)

InList(list, pred(_)) == \E k \in 1..Len(list) : pred(list[k])

\* matched_rule is the rule name; for an Allow the C++ string is
\* matched_rule followed by rule_user.
PolicyResult(action, matched_rule, rule_user) ==
    [action |-> action, matched_rule |-> matched_rule, rule_user |-> rule_user]

Block(matched_rule) == PolicyResult("kBlock", matched_rule, <<>>)

kSchemaNames ==
    << Str(<<"i","n","f","o","r","m","a","t","i","o","n","_","s","c","h","e","m","a">>),
       Str(<<"m","y","s","q","l">>),
       Str(<<"p","e","r","f","o","r","m","a","n","c","e","_","s","c","h","e","m","a">>),
       Str(<<"s","y","s">>) >>

\* Step 5: the index of the first access rule that matches user and IP, 0 if
\* none does.
FindAccessRule(access_control, session) ==
    LET matches == { k \in 1..Len(access_control) :
                       /\ \/ access_control[k].user = session.db_user
                          \/ access_control[k].user = Star
                       /\ \/ access_control[k].source_ip_cidr = <<>>
                          \/ ip_in_cidr(session.client_ip,
                                        access_control[k].source_ip_cidr) }
    IN  IF matches = {} THEN 0 ELSE SetMin(matches)

\* Steps 7-12, with the matched access rule in hand.
EvaluateRestrictions(config, rule, query, cmd_str, clock) ==
    LET tr    == rule.time_restriction
        range == parse_time_range(tr.allow_range)
        pc    == config.procedure_control
        all_tables_allowed == InList(rule.allowed_tables, LAMBDA t : t = Star)
        all_ops_allowed    == InList(rule.allowed_operations, LAMBDA op : op = Star)
        proc_name == IF query.tables = <<>> THEN <<>> ELSE Head(query.tables)
        in_list   == InList(pc.whitelist, LAMBDA wl : iequals(proc_name, wl))
    IN  IF tr.has_value /\ ~range.ok THEN Block("time-restriction")
        ELSE IF tr.has_value /\ ~is_within_time_range(range, clock)
             THEN Block("time-restriction")
        ELSE IF /\ ~all_tables_allowed
                /\ query.tables # <<>>
                /\ \E i \in 1..Len(query.tables) :
                      ~InList(rule.allowed_tables,
                              LAMBDA allowed : iequals(query.tables[i], allowed))
             THEN Block("table-denied")
        ELSE IF /\ rule.allowed_operations # <<>>
                /\ ~all_ops_allowed
                /\ ~InList(rule.allowed_operations, LAMBDA op : iequals(cmd_str, op))
             THEN Block("operation-denied")
        ELSE IF query.command \in {"kPrepare", "kExecute"} /\ pc.block_dynamic_sql
             THEN Block("procedure-dynamic-sql")
        ELSE IF query.command = "kCall" /\ pc.mode = "whitelist" /\ ~in_list
             THEN Block("procedure-whitelist")
        ELSE IF query.command = "kCall" /\ pc.mode = "blacklist" /\ in_list
             THEN Block("procedure-blacklist")
        ELSE IF query.command \in {"kCreate", "kAlter"} /\ pc.block_create_alter
             THEN Block("procedure-create-alter")
        ELSE IF /\ config.data_protection.block_schema_access
                /\ \E i \in 1..Len(query.tables) :
                      InList(kSchemaNames, LAMBDA schema : iequals(query.tables[i], schema))
             THEN Block("schema-access")
        ELSE PolicyResult("kAllow", "access-rule:", rule.user)

\* The same, with allowed_operations consulted ahead of blocked_operations.
EvaluateRuleAllowedFirst(config, rule, query, cmd_str, clock) ==
    IF /\ rule.allowed_operations # <<>>
       /\ ~InList(rule.allowed_operations, LAMBDA op : op = Star)
       /\ ~InList(rule.allowed_operations, LAMBDA op : iequals(cmd_str, op))
    THEN Block("operation-denied")
    ELSE IF InList(rule.blocked_operations, LAMBDA op : iequals(cmd_str, op))
    THEN Block("blocked-operation")
    ELSE EvaluateRestrictions(config, rule, query, cmd_str, clock)

\* Step 6, then steps 7-12.
EvaluateRule(config, rule, query, cmd_str, clock) ==
    IF InList(rule.blocked_operations, LAMBDA op : iequals(cmd_str, op))
    THEN Block("blocked-operation")
    ELSE EvaluateRestrictions(config, rule, query, cmd_str, clock)

\* PolicyEngine::evaluate on the snapshot config (config.null: config_ is
\* nullptr).
evaluate(config, query, session, clock) ==
    LET cmd_str == command_to_string(query.command)
        k       == FindAccessRule(config.access_control, session)
    IN  IF config.null THEN Block("no-config")
        ELSE IF query.command = "kUnknown" THEN Block("unknown-command")
        ELSE IF InList(config.sql_rules.block_statements,
                       LAMBDA stmt : iequals(cmd_str, stmt))
             THEN Block("block-statement")
        ELSE IF InList(config.sql_rules.block_patterns,
                       LAMBDA pattern : pattern.valid
                                           /\ regex_search(query.raw_sql, pattern.re))
             THEN Block("block-pattern")
        ELSE IF k = 0 THEN Block("no-access-rule")
        ELSE EvaluateRule(config, config.access_control[k], query, cmd_str, clock)

\* An error handler that reports the missing snapshot ahead of the error.
evaluate_error_config_first(config, error, session) ==
    IF config.null THEN Block("no-config") ELSE Block("parse-error")

\* PolicyEngine::evaluate_error
evaluate_error(config, error, session) == Block("parse-error")

(***************************************************************************)
(* Inputs of the policy evaluator harness                                  *)
(***************************************************************************)
NoConfig == [null |-> TRUE]

NoRestriction == [has_value |-> FALSE, allow_range |-> <<>>, timezone |-> <<>>]

Restriction(allow_range) ==
    [has_value |-> TRUE, allow_range |-> allow_range, timezone |-> Str(<<"U","T","C">>)]

AccessRule(user, cidr, tables, allowed, blocked, tr) ==
    [user |-> user, source_ip_cidr |-> cidr, allowed_tables |-> tables,
     allowed_operations |-> allowed, blocked_operations |-> blocked,
     time_restriction |-> tr]

PolicyConfig(sr, ac, pc, schema) ==
    [null |-> FALSE, sql_rules |-> sr, access_control |-> ac,
     procedure_control |-> pc,
     data_protection |-> [block_schema_access |-> schema]]

UnionSelectPattern == kDefaultInjectionPatterns[1]

SqlRulesSet ==
    { [block_statements |-> <<>>, block_patterns |-> <<>>],
      [block_statements |-> <<Str(<<"t","r","u","n","c","a","t","e">>), Str(<<"D","r","o","p">>)>>, block_patterns |-> <<>>],
      [block_statements |-> <<>>,
       block_patterns   |-> <<InvalidPattern("(unclosed"), UnionSelectPattern>>] }

ProcControls_Whitelist ==
    [mode |-> "whitelist", whitelist |-> <<Str(<<"s","p","_","o","k">>)>>,
     block_dynamic_sql |-> TRUE, block_create_alter |-> TRUE]

ProcControls_Blacklist ==
    [mode |-> "blacklist", whitelist |-> <<Str(<<"S","P","_","O","K">>)>>,
     block_dynamic_sql |-> FALSE, block_create_alter |-> FALSE]

ProcControls_EmptyName ==
    [mode |-> "whitelist", whitelist |-> <<<<>>>>,
     block_dynamic_sql |-> FALSE, block_create_alter |-> TRUE]

\* A rule ahead of the others in every list: it matches any user, but only
\* from 192.168.0.0/16, and blocks SELECT.
DecoyRule ==
    AccessRule(Star, Str(<<"1","9","2",".","1","6","8",".","0",".","0","/","1","6">>), <<Star>>, <<>>, <<Str(<<"S","E","L","E","C","T">>)>>,
               NoRestriction)

\* Who a rule is for: one user from one network, or anyone from anywhere.
RuleSubjects ==
    { <<Str(<<"a","p","p">>), Str(<<"1","0",".","0",".","0",".","0","/","8">>)>>, <<Star, <<>>>> }

PolicyRules ==
    { AccessRule(subject[1], subject[2], tables, allowed, blocked, tr) :
        subject \in RuleSubjects,
        tables  \in {<<Star>>, <<Str(<<"o","r","d","e","r","s">>), Str(<<"U","S","E","R","S">>)>>},
        allowed \in {<<>>, <<Str(<<"S","e","l","e","c","t">>), Str(<<"c","a","l","l">>), Str(<<"E","X","E","C","U","T","E">>), Str(<<"c","r","e","a","t","e">>)>>},
        blocked \in {<<>>, <<Str(<<"d","r","o","p">>), Str(<<"s","e","l","e","c","t">>), Str(<<"C","r","e","a","t","e">>)>>},
        tr      \in {NoRestriction, Restriction(Str(<<"0","9",":","0","0","-","1","8",":","0","0">>)),
                     Restriction(Str(<<"2","2",":","0","0","-","0","6",":","0","0">>)), Restriction(Str(<<"0","9","0","0","-","1","8","0","0">>))} }

AccessControls == {<<>>} \cup { <<DecoyRule, r>> : r \in PolicyRules }

\* Procedure control paired with the schema switch.
ProtectionSettings ==
    { <<ProcControls_Whitelist, TRUE>>, <<ProcControls_Blacklist, FALSE>>,
      <<ProcControls_EmptyName, TRUE>> }

PolicyConfigs ==
    {NoConfig} \cup
    { PolicyConfig(sr, ac, ps[1], ps[2]) :
        sr \in SqlRulesSet, ac \in AccessControls, ps \in ProtectionSettings }

PolicySessions ==
    { [db_user |-> Str(<<"a","p","p">>), client_ip |-> Str(<<"1","0",".","1",".","2",".","3">>)],
      [db_user |-> Str(<<"b","o","b">>), client_ip |-> Str(<<"1","0",".","1",".","2",".","3">>)],
      [db_user |-> Str(<<"a","p","p">>), client_ip |-> Str(<<"1","9","2",".","1","6","8",".","0",".","9">>)] }

NoClock == [ok |-> FALSE, minutes |-> 0]

\* The clock readings tried against a snapshot: 10:00 and 23:00 where a
\* rule carries a well-formed window, a failed lookup where it is the
\* daytime window, 10:00 alone otherwise.
PolicyClocks(config) ==
    LET ranges == IF config.null THEN {}
                  ELSE { config.access_control[k].time_restriction.allow_range :
                            k \in 1..Len(config.access_control) }
    IN  {[ok |-> TRUE, minutes |-> 600]}
        \cup (IF \E r \in ranges : parse_time_range(r).ok
              THEN {[ok |-> TRUE, minutes |-> 1380]} ELSE {})
        \cup (IF Str(<<"0","9",":","0","0","-","1","8",":","0","0">>) \in ranges THEN {NoClock} ELSE {})

PolicySql ==
    { Str(<<"S","E","L","E","C","T"," ","*"," ","F","R","O","M"," ","u","s","e","r","s">>),
      Str(<<"s","e","l","e","c","t"," ","n","a","m","e"," ","f","r","o","m"," ","m","y","s","q","l"," ","w","h","e","r","e"," ","i","d"," ","="," ","1">>),
      Str(<<"D","R","O","P"," ","T","A","B","L","E"," ","u","s","e","r","s">>),
      Str(<<"C","A","L","L"," ","s","p","_","o","k","(",")">>),
      Str(<<"E","X","E","C","U","T","E"," ","s","t","m","t","1">>),
      Str(<<"C","R","E","A","T","E"," ","T","A","B","L","E"," ","o","r","d","e","r","s"," ","(","i","d"," ","I","N","T",")">>),
      Str(<<"S","H","O","W"," ","T","A","B","L","E","S">>),
      Str(<<"S","E","L","E","C","T"," ","1"," ","U","N","I","O","N"," "," ","S","E","L","E","C","T"," ","2">>) }

\* The classifier's output for PolicySql, and one CALL whose procedure name
\* is present in tables.
PolicyQueries ==
    { parse(sql) : sql \in PolicySql } \cup
    { [ok |-> TRUE, command |-> "kCall", tables |-> <<Str(<<"S","p","_","O","k">>)>>,
       raw_sql |-> Str(<<"C","A","L","L"," ","S","p","_","O","k","(",")">>), has_where_clause |-> FALSE] }

NoQuery == [ok |-> FALSE]

NoError == [ok |-> TRUE]

PolicyErrors ==
    { parse(sql) : sql \in {Str(<<" ">>), Str(<<"S","E","L","E","C","T"," ","1",";"," ","D","R","O","P"," ","T","A","B","L","E"," ","u","s","e","r","s">>), Str(<<"-","-"," ","n","o","t","h","i","n","g">>)} }
    \cup { [ok |-> FALSE, code |-> "kInternalError", message |-> "internal",
            context |-> <<>>] }

PolicyInit ==
    /\ pol_pc = "input"
    /\ pol_config \in PolicyConfigs
    /\ pol_session \in PolicySessions
    /\ \/ /\ pol_query \in PolicyQueries
          /\ pol_error = NoError
          /\ pol_clock \in PolicyClocks(pol_config)
       \/ /\ pol_query = NoQuery
          /\ pol_error \in PolicyErrors
          /\ pol_clock = NoClock
    /\ pol_call = "none"
    /\ pol_result = Block("none")

PolicyIdle ==
    /\ pol_pc = "idle"
    /\ pol_config = NoConfig
    /\ pol_query = NoQuery
    /\ pol_error = NoError
    /\ pol_session = [db_user |-> <<>>, client_ip |-> <<>>]
    /\ pol_clock = NoClock
    /\ pol_call = "none"
    /\ pol_result = Block("none")

\* A caller with a classified query calls evaluate.
Evaluate ==
    /\ pol_pc = "input"
    /\ pol_query # NoQuery
    /\ pol_result' = evaluate(pol_config, pol_query, pol_session, pol_clock)
    /\ pol_call' = "evaluate"
    /\ pol_pc' = "done"
    /\ UNCHANGED <<pol_config, pol_query, pol_error, pol_session, pol_clock>>
    /\ UNCHANGED nonPolicyVars

\* A caller whose classification failed calls evaluate_error.
EvaluateError ==
    /\ pol_pc = "input"
    /\ pol_error # NoError
    /\ pol_result' = evaluate_error(pol_config, pol_error, pol_session)
    /\ pol_call' = "evaluate_error"
    /\ pol_pc' = "done"
    /\ UNCHANGED <<pol_config, pol_query, pol_error, pol_session, pol_clock>>
    /\ UNCHANGED nonPolicyVars

PolicyNext == Evaluate \/ EvaluateError

(***************************************************************************)
(* The COM_QUERY pipeline of Session::run (session.cpp lines 681-703):     *)
(* classify, then evaluate_error on failure, else run the detectors and    *)
(* evaluate.  The detectors' results are computed and not read again.      *)
(***************************************************************************)
NoInjection == [detected |-> FALSE, matched_pattern |-> "", reason |-> ""]

\* inj_result, where the pipeline computes it.
PipelineInjection(parse_result, sql) ==
    IF ~parse_result.ok THEN NoInjection ELSE injection_check(sql)

\* policy_result
PipelineVerdict(config, parse_result, ctx, clock) ==
    IF ~parse_result.ok
    THEN evaluate_error(config, parse_result, ctx)
    ELSE evaluate(config, parse_result, ctx, clock)

\* The policy the proxy runs with in the session and classifier harnesses:
\* DROP is a blocked statement, user app may do anything else from anywhere.
SessionPolicy ==
    PolicyConfig([block_statements |-> <<Str(<<"D","R","O","P">>)>>, block_patterns |-> <<>>],
                 <<AccessRule(Str(<<"a","p","p">>), <<>>, <<Star>>, <<>>, <<>>, NoRestriction)>>,
                 [mode |-> "blacklist", whitelist |-> <<>>,
                  block_dynamic_sql |-> TRUE, block_create_alter |-> TRUE],
                 TRUE)

AppSession == [db_user |-> Str(<<"a","p","p">>), client_ip |-> Str(<<"1","0",".","1",".","2",".","3">>)]

Noon == [ok |-> TRUE, minutes |-> 720]

(***************************************************************************)
(* Inputs of the classifier harness: a statement followed by up to         *)
(* MaxSqlTokens lexical fragments.                                         *)
(***************************************************************************)
MaxSqlTokens == 4

SqlHead == Str(<<"S","E","L","E","C","T"," ","1">>)

SqlTokens ==
    { Str(<<";">>), Str(<<"'">>), Str(<<"\"">>), Str(<<"\\">>), Str(<<"/","*">>), Str(<<"*","/">>), Str(<<"-","-">>), Str(<<"#">>),
      Str(<<"\n">>) }

RECURSIVE Concat(_)
Concat(ts) == IF ts = <<>> THEN <<>> ELSE Head(ts) \o Concat(Tail(ts))

ParserInputs ==
    { SqlHead \o Concat(ts) :
        ts \in UNION { [1..n -> SqlTokens] : n \in 0..MaxSqlTokens } }

ParserInit ==
    /\ p_pc = "input"
    /\ p_sql \in ParserInputs
    /\ p_result = NoQuery
    /\ p_verdict = Block("none")

ParserIdle ==
    /\ p_pc = "idle"
    /\ p_sql = <<>>
    /\ p_result = NoQuery
    /\ p_verdict = Block("none")

\* The session receives p_sql in a COM_QUERY and derives its verdict.
ClassifyQuery ==
    /\ p_pc = "input"
    /\ LET parse_result == parse(p_sql)
       IN  /\ p_result' = parse_result
           /\ p_verdict' = PipelineVerdict(SessionPolicy, parse_result, AppSession, Noon)
    /\ p_pc' = "done"
    /\ UNCHANGED p_sql
    /\ UNCHANGED nonParserVars

ParserNext == ClassifyQuery

(***************************************************************************)
(* Lexical regions of a SQL text, token by token: a quoted string runs to  *)
(* its closing quote (a backslash or a doubled quote inside it escapes),   *)
(* a block comment to the next star-slash, a line or hash comment to the   *)
(* end of the line.  TopLevel(sql, i) is the set of 0-based indices at or  *)
(* after i that lie outside every string and comment, given that i does.   *)
(***************************************************************************)
RECURSIVE QuoteEnd(_, _, _)
QuoteEnd(sql, i, q) ==
    IF i >= Len(sql) THEN Len(sql)
    ELSE IF At(sql, i) = chBackslash THEN QuoteEnd(sql, i + 2, q)
    ELSE IF At(sql, i) = q /\ i + 1 < Len(sql) /\ At(sql, i + 1) = q
         THEN QuoteEnd(sql, i + 2, q)
    ELSE IF At(sql, i) = q THEN i + 1
    ELSE QuoteEnd(sql, i + 1, q)

BlockEnd(sql, i) ==
    LET closes == { j \in i..(Len(sql) - 2) :
                      At(sql, j) = chStar /\ At(sql, j + 1) = chSlash }
    IN  IF closes = {} THEN Len(sql) ELSE SetMin(closes) + 2

LineEnd(sql, i) ==
    LET nls == { j \in i..(Len(sql) - 1) : At(sql, j) = 10 }
    IN  IF nls = {} THEN Len(sql) ELSE SetMin(nls) + 1

RECURSIVE TopLevel(_, _)
TopLevel(sql, i) ==
    IF i >= Len(sql) THEN {}
    ELSE IF At(sql, i) \in {chQuote, chDQuote}
         THEN TopLevel(sql, QuoteEnd(sql, i + 1, At(sql, i)))
    ELSE IF i + 1 < Len(sql) /\ At(sql, i) = chSlash /\ At(sql, i + 1) = chStar
         THEN TopLevel(sql, BlockEnd(sql, i + 2))
    ELSE IF i + 1 < Len(sql) /\ At(sql, i) = chMinus /\ At(sql, i + 1) = chMinus
         THEN TopLevel(sql, LineEnd(sql, i + 2))
    ELSE IF At(sql, i) = chHash THEN TopLevel(sql, LineEnd(sql, i + 1))
    ELSE {i} \cup TopLevel(sql, i + 1)

\* A ';' outside strings and comments with a non-whitespace byte after it.
HasStatementSeparator(sql) ==
    \E k \in TopLevel(sql, 0) :
        /\ At(sql, k) = chSemicolon
        /\ \E m \in (k + 1)..(Len(sql) - 1) : ~IsSpace(At(sql, m))

\* A ';' that lies inside a string or a comment.
HasHiddenSemicolon(sql) ==
    \E k \in 0..(Len(sql) - 1) :
        At(sql, k) = chSemicolon /\ k \notin TopLevel(sql, 0)

Lower(s) == [i \in 1..Len(s) |-> ToLowerCh(s[i])]

LowerSet(list) == { Lower(list[k]) : k \in 1..Len(list) }

Elems(list) == { list[k] : k \in 1..Len(list) }

CommandName == Lower(command_to_string(pol_query.command))

RuleMatchesSession(r) ==
    /\ r.user \in {pol_session.db_user, Star}
    /\ r.source_ip_cidr # <<>> => ip_in_cidr(pol_session.client_ip, r.source_ip_cidr)

HasAccessRule ==
    /\ ~pol_config.null
    /\ \E k \in 1..Len(pol_config.access_control) :
          RuleMatchesSession(pol_config.access_control[k])

\* The first rule in list order that matches the session.
SelectedRule ==
    LET ac == pol_config.access_control
    IN  ac[CHOOSE k \in 1..Len(ac) :
              /\ RuleMatchesSession(ac[k])
              /\ \A j \in 1..(k - 1) : ~RuleMatchesSession(ac[j])]

InsideWindow(range) ==
    LET now   == pol_clock.minutes
        start == range.start_h * 60 + range.start_m
        stop  == range.end_h * 60 + range.end_m
    IN  IF start > stop THEN now >= start \/ now < stop
        ELSE start <= now /\ now < stop

ProcedureBlockName ==
    LET pc   == pol_config.procedure_control
        name == IF pol_query.tables = <<>> THEN <<>> ELSE pol_query.tables[1]
    IN  IF pol_query.command \in {"kPrepare", "kExecute"} /\ pc.block_dynamic_sql
        THEN "procedure-dynamic-sql"
        ELSE IF /\ pol_query.command = "kCall" /\ pc.mode = "whitelist"
                /\ Lower(name) \notin LowerSet(pc.whitelist)
        THEN "procedure-whitelist"
        ELSE IF /\ pol_query.command = "kCall" /\ pc.mode = "blacklist"
                /\ Lower(name) \in LowerSet(pc.whitelist)
        THEN "procedure-blacklist"
        ELSE IF pol_query.command \in {"kCreate", "kAlter"} /\ pc.block_create_alter
        THEN "procedure-create-alter"
        ELSE "none"

\* The block condition of rule k, for rules 6-11 against the selected rule.
RuleBlocks(k, rule, command_name) ==
    CASE k = 6 -> command_name \in LowerSet(rule.blocked_operations)
      [] k = 7 -> /\ rule.time_restriction.has_value
                  /\ LET range == parse_time_range(rule.time_restriction.allow_range)
                     IN  ~range.ok \/ ~pol_clock.ok \/ ~InsideWindow(range)
      [] k = 8 -> /\ Star \notin Elems(rule.allowed_tables)
                  /\ ~(LowerSet(pol_query.tables) \subseteq LowerSet(rule.allowed_tables))
      [] k = 9 -> /\ rule.allowed_operations # <<>>
                  /\ Star \notin Elems(rule.allowed_operations)
                  /\ command_name \notin LowerSet(rule.allowed_operations)
      [] k = 10 -> ProcedureBlockName # "none"
      [] k = 11 -> /\ pol_config.data_protection.block_schema_access
                   /\ LowerSet(pol_query.tables) \cap LowerSet(kSchemaNames) # {}

\* The block condition of rule k, for rules 2-5 against the snapshot.
SnapshotBlocks(k, command_name) ==
    CASE k = 2 -> pol_query.command = "kUnknown"
      [] k = 3 -> command_name \in LowerSet(pol_config.sql_rules.block_statements)
      [] k = 4 -> \E p \in Elems(pol_config.sql_rules.block_patterns) :
                     p.valid /\ regex_search(pol_query.raw_sql, p.re)
      [] k = 5 -> ~HasAccessRule

\* The rules whose block condition holds: rule 1 without a snapshot; else
\* those of rules 2-5 that block and, with an access rule selected, those of
\* rules 6-11 that block.
FailingRules ==
    LET command_name == CommandName
    IN  IF pol_config.null THEN {1}
        ELSE { k \in 2..5 : SnapshotBlocks(k, command_name) }
             \cup (IF HasAccessRule
                   THEN LET rule == SelectedRule
                        IN  { k \in 6..11 : RuleBlocks(k, rule, command_name) }
                   ELSE {})

RuleName(k) ==
    CASE k = 1 -> "no-config"
      [] k = 2 -> "unknown-command"
      [] k = 3 -> "block-statement"
      [] k = 4 -> "block-pattern"
      [] k = 5 -> "no-access-rule"
      [] k = 6 -> "blocked-operation"
      [] k = 7 -> "time-restriction"
      [] k = 8 -> "table-denied"
      [] k = 9 -> "operation-denied"
      [] k = 10 -> ProcedureBlockName
      [] k = 11 -> "schema-access"

EvaluateReturned == pol_pc = "done" /\ pol_call = "evaluate"

\* C3: evaluate returns Allow exactly when none of rules 1-11 blocks, and
\* Block for every other input.
C3_AllowOnlyWhenAllRulesPass ==
    EvaluateReturned =>
        LET failing == FailingRules
        IN  /\ pol_result.action = "kAllow" <=> failing = {}
            /\ failing # {} => pol_result.action = "kBlock"

\* An Allow for a query on a named table, under a rule with a table list,
\* an operation list and a time window.
C3_Witness ==
    /\ EvaluateReturned
    /\ pol_result.action = "kAllow"
    /\ pol_query.tables # <<>>
    /\ Star \notin Elems(SelectedRule.allowed_tables)
    /\ SelectedRule.allowed_operations # <<>>
    /\ SelectedRule.time_restriction.has_value

C5_EvaluateErrorBlocks ==
    (pol_pc = "done" /\ pol_call = "evaluate_error")
        => /\ pol_result.action = "kBlock"
           /\ pol_result.matched_rule = "parse-error"
           /\ pol_result.action \notin {"kAllow", "kLog"}

\* evaluate_error has run against the null snapshot.
C5_Witness ==
    /\ pol_pc = "done"
    /\ pol_call = "evaluate_error"
    /\ pol_config.null
    /\ pol_error.code = "kInvalidSql"
    /\ pol_result = Block("parse-error")

(***************************************************************************)
(* MySQL packets and the pure protocol functions the session calls         *)
(***************************************************************************)
Packet(sequence_id, payload) == [sequence_id |-> sequence_id, payload |-> payload]

NoPacket == Packet(0, <<>>)

\* No write is awaited.
NoWrite == [to |-> "none", packet |-> NoPacket]

kSqlState == Str(<<"H","Y","0","0","0">>)

\* MysqlPacket::make_error: [0xFF][code, 2 bytes LE]['#']["HY000"][message]
make_error(error_code, message, sequence_id) ==
    Packet(sequence_id,
           <<255, error_code % 256, (error_code \div 256) % 256, chHash>>
               \o kSqlState \o message)

\* A mapping that knows no unsupported command byte.
every_byte_a_command(byte) == "kComUnknown"

\* map_command_byte: the command bytes extract_command accepts.
map_command_byte(byte) ==
    CASE byte = 1 -> "kComQuit"
      [] byte = 2 -> "kComInitDb"
      [] byte = 3 -> "kComQuery"
      [] byte = 4 -> "kComFieldList"
      [] byte = 5 -> "kComCreateDb"
      [] byte = 6 -> "kComDropDb"
      [] byte = 7 -> "kComRefresh"
      [] byte = 9 -> "kComStatistics"
      [] byte = 10 -> "kComProcessInfo"
      [] byte = 11 -> "kComConnect"
      [] byte = 12 -> "kComProcessKill"
      [] byte = 14 -> "kComPing"
      [] byte = 22 -> "kComStmtPrepare"
      [] byte = 23 -> "kComStmtExecute"
      [] byte = 25 -> "kComStmtClose"
      [] byte = 26 -> "kComStmtReset"
      [] OTHER -> "nullopt"

CommandFailure(code) ==
    [ok |-> FALSE, code |-> code, command_type |-> "kComUnknown",
     sequence_id |-> 0, query |-> <<>>]

extract_command(packet) ==
    LET payload  == packet.payload
        cmd_type == map_command_byte(payload[1])
    IN  IF payload = <<>> THEN CommandFailure("kMalformedPacket")
        ELSE IF cmd_type = "nullopt" THEN CommandFailure("kUnsupportedCommand")
        ELSE [ok |-> TRUE, code |-> "none", command_type |-> cmd_type,
              sequence_id |-> packet.sequence_id,
              query |-> IF cmd_type = "kComQuery" /\ Len(payload) > 1
                        THEN Tail(payload) ELSE <<>>]

RECURSIVE LittleEndian(_, _, _)
\* Little-endian value of payload[offset .. offset + n - 1] (offsets from 0).
LittleEndian(payload, offset, n) ==
    IF n = 0 THEN 0
    ELSE At(payload, offset) + 256 * LittleEndian(payload, offset + 1, n - 1)

LenencFailure(offset) == [ok |-> FALSE, value |-> 0, offset |-> offset]

\* parse_lenenc_integer: the value and the offset behind it.
parse_lenenc_integer(payload, offset) ==
    LET first == At(payload, offset)
        wide(n) == IF offset + 1 + n > Len(payload) THEN LenencFailure(offset + 1)
                   ELSE [ok |-> TRUE, value |-> LittleEndian(payload, offset + 1, n),
                         offset |-> offset + 1 + n]
    IN  IF offset >= Len(payload) THEN LenencFailure(offset)
        ELSE IF first < 251 THEN [ok |-> TRUE, value |-> first, offset |-> offset + 1]
        ELSE IF first = 252 THEN wide(2)
        ELSE IF first = 253 THEN wide(3)
        ELSE IF first = 254 THEN wide(8)
        ELSE LenencFailure(offset + 1)

\* consume_lenenc_text_cell: the offset behind the cell, or -1.
consume_lenenc_text_cell(payload, offset) ==
    LET len == parse_lenenc_integer(payload, offset)
    IN  IF offset >= Len(payload) THEN -1
        ELSE IF At(payload, offset) = 251 THEN offset + 1
        ELSE IF ~len.ok THEN -1
        ELSE IF len.offset + len.value > Len(payload) THEN -1
        ELSE len.offset + len.value

RECURSIVE CellsEnd(_, _, _)
\* The offset behind the next cells of the row, or -1: the loop of
\* is_text_row_packet, split in halves.
CellsEnd(payload, offset, cells) ==
    IF offset = -1 THEN -1
    ELSE IF cells = 0 THEN offset
    ELSE IF cells = 1 THEN consume_lenenc_text_cell(payload, offset)
    ELSE LET middle == CellsEnd(payload, offset, cells \div 2)
         IN  CellsEnd(payload, middle, cells - cells \div 2)

TextRowFrom(payload, offset, cells) == CellsEnd(payload, offset, cells) = Len(payload)

is_text_row_packet(payload, column_count) == TextRowFrom(payload, 0, column_count)

is_resultset_final_ok_packet(payload) ==
    LET affected == parse_lenenc_integer(payload, 1)
        inserted == parse_lenenc_integer(payload, affected.offset)
    IN  /\ payload # <<>>
        /\ payload[1] = 0
        /\ affected.ok
        /\ inserted.ok
        /\ inserted.offset + 4 <= Len(payload)

IsEofPacket(payload) == payload # <<>> /\ payload[1] = 254 /\ Len(payload) < 9

\* The terminator of a metadata section of a COM_STMT_PREPARE response.
is_metadata_terminator_packet(payload) ==
    IsEofPacket(payload) \/ is_resultset_final_ok_packet(payload)

(***************************************************************************)
(* relay_server_response: what it concludes from a packet it has forwarded *)
(***************************************************************************)
NoRelay ==
    [state |-> "kFirst", column_count |-> 0, column_defs_read |-> 0,
     prev_seq_id |-> 0]

RelayDone == [NoRelay EXCEPT !.state = "kDone"]

\* The first packet (lines 340-406).  Session::run never passes
\* kComStmtPrepare (it rejects that command itself), so an OK ends the
\* response for every request_type that reaches here.
RelayFirst(first_pkt, request_type) ==
    LET first_payload == first_pkt.payload
        first_byte    == first_payload[1]
    IN  IF first_payload = <<>> THEN RelayDone
        ELSE IF first_byte = 255 THEN RelayDone
        ELSE IF first_byte = 0 THEN RelayDone
        ELSE IF first_byte = 254 /\ Len(first_payload) < 9 THEN RelayDone
        ELSE IF first_byte < 1 \/ first_byte > 252 THEN RelayDone
        ELSE [state |-> "kColumnDefs", column_count |-> first_byte,
              column_defs_read |-> 0, prev_seq_id |-> first_pkt.sequence_id]

\* A later packet (lines 423-505); column_defs_read is a uint8.
RelayNext(r, packet, request_type) ==
    LET payload == packet.payload
        byte0   == payload[1]
        seen    == [r EXCEPT !.prev_seq_id = packet.sequence_id]
        defs    == (r.column_defs_read + 1) % 256
    IN  IF payload = <<>> THEN RelayDone
        ELSE IF byte0 = 255 THEN RelayDone
        ELSE IF packet.sequence_id < r.prev_seq_id /\ r.prev_seq_id # 255
             THEN RelayDone
        ELSE IF r.state = "kColumnDefs"
             THEN IF IsEofPacket(payload) THEN [seen EXCEPT !.state = "kRows"]
                  ELSE IF defs > r.column_count + 1 THEN RelayDone
                  ELSE [seen EXCEPT !.column_defs_read = defs]
        ELSE IF IsEofPacket(payload) THEN RelayDone
        ELSE IF /\ request_type = "kComQuery"
                /\ byte0 = 0
                /\ ~is_text_row_packet(payload, r.column_count)
                /\ is_resultset_final_ok_packet(payload)
             THEN RelayDone
        ELSE seen

(***************************************************************************)
(* The handshake state machine (src/protocol/handshake.cpp)                *)
(***************************************************************************)
kMaxRoundTrips == 10

classify_auth_response(payload) ==
    IF payload = <<>> THEN "kUnknown"
    ELSE CASE payload[1] = 0 -> "kOk"
           [] payload[1] = 255 -> "kError"
           [] payload[1] = 254 -> IF Len(payload) < 9 THEN "kEof" ELSE "kAuthSwitch"
           [] payload[1] = 1 -> "kAuthMoreData"
           [] OTHER -> "kUnknown"

HandshakeTransition(next_state, action) ==
    [ok |-> TRUE, next_state |-> next_state, action |-> action]

\* std::unexpected(ParseError{code, ...}); ok, next_state and action are
\* those of no transition.
HandshakeError(code) ==
    [ok |-> FALSE, next_state |-> "kFailed", action |-> "none", code |-> code]

kMalformedPacket == "kMalformedPacket"

kInternalError == "kInternalError"

\* A machine that waits for another reply after an unclassifiable one.
unknown_restarts_auth(auth_type) ==
    CASE auth_type = "kOk" -> HandshakeTransition("kDone", "kComplete")
      [] auth_type \in {"kError", "kEof"} -> HandshakeTransition("kFailed", "kTerminate")
      [] OTHER -> HandshakeTransition("kWaitServerAuth", "kRelayToClient")

\* The branches the three server-reply states share.
AuthVerdict(auth_type) ==
    CASE auth_type = "kOk" -> HandshakeTransition("kDone", "kComplete")
      [] auth_type \in {"kError", "kEof"} -> HandshakeTransition("kFailed", "kTerminate")
      [] OTHER -> HandshakeTransition("kFailed", "kTerminateNoRelay")

\* The packets relay_handshake relays are counted up to MaxRelayed, one
\* more than two per counted round trip and six around them.
MaxRelayed == 27

\* A cap that allows one round trip more.
cap_off_by_one(rounds) == rounds > kMaxRoundTrips

\* round_trips >= kMaxRoundTrips (lines 415, 479 and 508).
LoopCapped(rounds) == rounds >= kMaxRoundTrips

\* A second AuthSwitchRequest that is relayed like the first.
relay_nested_auth_switch(current_state) ==
    HandshakeTransition("kWaitClientAuthSwitch", "kRelayToClient")

\* case kAuthSwitch after an AuthSwitch or an AuthMoreData (lines 428-434 and
\* 501-507).
NestedAuthSwitch(current_state) == HandshakeError(kMalformedPacket)

process_handshake_packet(current_state, payload, rounds) ==
    LET auth_type    == classify_auth_response(payload)
        fast_auth_ok == Len(payload) >= 2 /\ payload[2] = 3
        more_data    == HandshakeTransition(IF fast_auth_ok THEN "kWaitServerMoreData"
                                            ELSE "kWaitClientMoreData",
                                            "kRelayToClient")
    IN  CASE current_state = "kWaitServerGreeting" ->
               IF payload = <<>> THEN HandshakeError(kMalformedPacket)
               ELSE HandshakeTransition("kWaitClientResponse", "kRelayToClient")
          [] current_state = "kWaitClientResponse" ->
               HandshakeTransition("kWaitServerAuth", "kRelayToServer")
          [] current_state = "kWaitServerAuth" ->
               IF auth_type = "kAuthSwitch"
               THEN HandshakeTransition("kWaitClientAuthSwitch", "kRelayToClient")
               ELSE IF auth_type = "kAuthMoreData" THEN more_data
               ELSE AuthVerdict(auth_type)
          [] current_state = "kWaitClientAuthSwitch" ->
               HandshakeTransition("kWaitServerAuthSwitch", "kRelayToServer")
          [] current_state = "kWaitServerAuthSwitch" ->
               IF auth_type = "kAuthMoreData"
               THEN IF LoopCapped(rounds) THEN HandshakeError(kMalformedPacket)
                    ELSE HandshakeTransition("kWaitClientMoreData", "kRelayToClient")
               ELSE IF auth_type = "kAuthSwitch" THEN NestedAuthSwitch(current_state)
               ELSE AuthVerdict(auth_type)
          [] current_state = "kWaitClientMoreData" ->
               HandshakeTransition("kWaitServerMoreData", "kRelayToServer")
          [] current_state = "kWaitServerMoreData" ->
               IF auth_type = "kAuthMoreData"
               THEN IF LoopCapped(rounds) THEN HandshakeError(kMalformedPacket) ELSE more_data
               ELSE IF auth_type = "kAuthSwitch" THEN NestedAuthSwitch(current_state)
               ELSE IF auth_type = "kUnknown"
               THEN IF LoopCapped(rounds) THEN HandshakeError(kMalformedPacket)
                    ELSE HandshakeTransition("kWaitClientMoreData", "kRelayToClient")
               ELSE AuthVerdict(auth_type)
          [] OTHER -> HandshakeError(kInternalError)

\* Whether bit n of a capability byte is set.
BitSet(byte, n) == (byte \div Pow2(n)) % 2 = 1

RECURSIVE FindNul(_, _)
\* The offset (from 0) of the first 0x00 at or after pos, or the size.
FindNul(payload, pos) ==
    IF pos >= Len(payload) THEN Len(payload)
    ELSE IF At(payload, pos) = 0 THEN pos
    ELSE FindNul(payload, pos + 1)

SubBytes(payload, from, to) == [i \in 1..(to - from) |-> payload[from + i]]

FieldsFailure == [ok |-> FALSE, user |-> <<>>, db |-> <<>>]

\* No HandshakeResponse has been read.
NoResponse == [read |-> FALSE, ok |-> FALSE, user |-> <<>>]

\* extract_handshake_response_fields: the user and database names of a
\* HandshakeResponse41.
extract_handshake_response_fields(payload) ==
    LET size     == Len(payload)
        user_end == FindNul(payload, 32)
        pos      == user_end + 1
        len_byte == At(payload, pos)
        Skip(from, auth_len) == IF auth_len > size - from THEN -1 ELSE from + auth_len
        lenenc_end ==
            IF pos >= size THEN -1
            ELSE IF len_byte < 251 THEN Skip(pos + 1, len_byte)
            ELSE IF len_byte = 252
                 THEN IF pos + 2 >= size THEN -1
                      ELSE Skip(pos + 3, LittleEndian(payload, pos + 1, 2))
            ELSE IF len_byte = 253
                 THEN IF pos + 3 >= size THEN -1
                      ELSE Skip(pos + 4, LittleEndian(payload, pos + 1, 3))
            ELSE -1
        secure_end == IF pos >= size THEN -1 ELSE Skip(pos + 1, len_byte)
        plain_end  == IF FindNul(payload, pos) >= size THEN -1
                      ELSE FindNul(payload, pos) + 1
        auth_end   == IF BitSet(payload[3], 5) THEN lenenc_end
                      ELSE IF BitSet(payload[2], 7) THEN secure_end
                      ELSE plain_end
        db_end     == FindNul(payload, auth_end)
        user       == SubBytes(payload, 32, user_end)
    IN  IF size < 33 THEN FieldsFailure
        ELSE IF user_end >= size THEN FieldsFailure
        ELSE IF auth_end = -1 THEN FieldsFailure
        ELSE IF ~BitSet(payload[1], 3) THEN [ok |-> TRUE, user |-> user, db |-> <<>>]
        ELSE IF auth_end >= size \/ db_end >= size THEN FieldsFailure
        ELSE [ok |-> TRUE, user |-> user, db |-> SubBytes(payload, auth_end, db_end)]

(***************************************************************************)
(* What the two peers of a session may send                                *)
(***************************************************************************)
Zeros(n) == [i \in 1..n |-> 0]

kOkPayload == <<0, 0, 0, 2, 0, 0, 0>>

ServerGreetings == { Packet(0, <<10>> \o Str(<<"8",".","0">>) \o <<0>>), Packet(0, <<>>) }

\* HandshakeResponse41 of user app: with CLIENT_SECURE_CONNECTION and an
\* empty auth response; with CLIENT_CONNECT_WITH_DB and a NUL-terminated
\* auth response; cut short after the fixed 32 bytes.
ClientResponses ==
    { Packet(1, <<0, 130, 0, 0>> \o Zeros(28) \o Str(<<"a","p","p">>) \o <<0, 0>>),
      Packet(1, <<8, 2, 0, 0>> \o Zeros(28) \o Str(<<"a","p","p">>) \o <<0>> \o Str(<<"p","w">>) \o <<0>>
                    \o Str(<<"s","h","o","p">>) \o <<0>>),
      Packet(1, <<0, 130, 0, 0>> \o Zeros(28)) }

\* OK, ERR, EOF, AuthSwitchRequest, AuthMoreData (fast auth and full auth),
\* and a raw RSA key.
ServerAuthPackets ==
    { Packet(2, kOkPayload), Packet(2, <<255, 21, 4>>), Packet(2, <<254>>),
      Packet(2, <<254>> \o Str(<<"s","h","a","2","5","6","_","p","a","s","s","w","o","r","d">>) \o <<0>>),
      Packet(2, <<1, 3>>), Packet(2, <<1, 4>>), Packet(2, Str(<<"-","-","-","-","-","B","E","G","I","N">>)) }

ClientAuthPackets == { Packet(3, <<7, 7>>) }

Query(sequence_id, sql) == Packet(sequence_id, <<3>> \o sql)

sqlSelectOne == Str(<<"S","E","L","E","C","T"," ","1">>)

sqlSleep == Str(<<"S","E","L","E","C","T"," ","S","L","E","E","P","(","1",")">>)

sqlDrop == Str(<<"D","R","O","P"," ","T","A","B","L","E"," ","u","s","e","r","s">>)

sqlStacked == Str(<<"S","E","L","E","C","T"," ","1",";"," ","D","R","O","P"," ","T","A","B","L","E"," ","u","s","e","r","s">>)

\* COM_QUERY (allowed, matching an injection pattern, a blocked statement,
\* two statements, no SQL), COM_QUIT, COM_STMT_PREPARE/EXECUTE/RESET,
\* COM_PING, an unknown command byte, COM_STMT_CLOSE and an empty packet.
ClientCommands ==
    { Query(0, sqlSelectOne), Query(0, sqlSleep), Query(0, sqlDrop),
      Query(255, sqlStacked), Packet(0, <<3>>), Packet(0, <<1>>),
      Packet(0, <<22>> \o sqlSelectOne), Packet(255, <<23, 1, 0, 0, 0>>),
      Packet(0, <<26, 1, 0, 0, 0>>), Packet(0, <<14>>), Packet(0, <<8>>),
      Packet(0, <<25, 1, 0, 0, 0>>), Packet(0, <<>>) }

\* OK, ERR, EOF, a column count of 1, a column definition, a row, a row of
\* one empty cell, an empty packet and a long 0xFE packet.
ServerPayloads ==
    { kOkPayload, <<255, 40, 4>>, <<254, 0, 0, 2, 0>>, <<1>>, <<3>> \o Str(<<"d","e","f">>),
      <<1, 49>>, <<0>>, <<>>, <<254>> \o Zeros(8) }

ServerSeqs == {1, 2}

ServerResponses ==
    { Packet(sequence_id, payload) : sequence_id \in ServerSeqs, payload \in ServerPayloads }

ClientIp == Str(<<"1","0",".","1",".","2",".","3">>)

NoVerdict == PolicyResult("none", "none", <<>>)

kCantConnect == Str(<<"C","a","n","'","t"," ","c","o","n","n","e","c","t">>)

kAccessDenied == Str(<<"A","c","c","e","s","s"," ","d","e","n","i","e","d"," ","b","y"," ","p","o","l","i","c","y">>)

kNotSupported == Str(<<"P","r","e","p","a","r","e","d"," ","s","t","a","t","e","m","e","n","t","s"," ","a","r","e"," ","n","o","t"," ","s","u","p","p","o","r","t","e","d"," ","b","y"," ","p","r","o","x","y"," ","p","o","l","i","c","y"," ","e","n","f","o","r","c","e","m","e","n","t">>)

(***************************************************************************)
(* One session.  Session::run is a coroutine on a single-threaded          *)
(* io_context: it runs from one co_await to the next without interruption, *)
(* and between the completion of the awaited operation and the resumption  *)
(* of the coroutine other handlers of the io_context may run, among them   *)
(* the one that calls Session::close.                                      *)
(***************************************************************************)
MaxCommands == 2

SessionInit ==
    /\ run_pc = "spawned"
    /\ io = "idle"
    /\ rd = "none"
    /\ rx = NoPacket
    /\ wire = NoWrite
    /\ pkt = NoPacket
    /\ closing_ = FALSE
    /\ state_ = "kHandshaking"
    /\ ctx_ = [client_ip |-> <<>>, db_user |-> <<>>, handshake_done |-> FALSE]
    /\ extracted_user = <<>>
    /\ hs_log = [auth_switches |-> 0, relayed |-> 0, error |-> "none", state |-> "none",
                 response |-> NoResponse]
    /\ hs_state = "kWaitServerGreeting"
    /\ round_trips = 0
    /\ relay = NoRelay
    /\ policy_result = NoVerdict
    /\ inj_result = NoInjection
    /\ upstream = <<>>
    /\ client_err = <<>>
    /\ stats_on_query = "none"
    /\ relay_open = FALSE
    /\ eval_calls = 0
    /\ forwarded_no = 0
    /\ cmd_no = 0
    /\ conn_log = <<>>
    /\ client_shut = FALSE
    /\ server_shut = FALSE
    /\ stats_conn = [opened |-> 0, closed |-> 0]

SessionIdle ==
    /\ run_pc = "idle"
    /\ io = "idle"
    /\ rd = "none"
    /\ rx = NoPacket
    /\ wire = NoWrite
    /\ pkt = NoPacket
    /\ closing_ = FALSE
    /\ state_ = "kHandshaking"
    /\ ctx_ = [client_ip |-> <<>>, db_user |-> <<>>, handshake_done |-> FALSE]
    /\ extracted_user = <<>>
    /\ hs_log = [auth_switches |-> 0, relayed |-> 0, error |-> "none", state |-> "none",
                 response |-> NoResponse]
    /\ hs_state = "kWaitServerGreeting"
    /\ round_trips = 0
    /\ relay = NoRelay
    /\ policy_result = NoVerdict
    /\ inj_result = NoInjection
    /\ upstream = <<>>
    /\ client_err = <<>>
    /\ stats_on_query = "none"
    /\ relay_open = FALSE
    /\ eval_calls = 0
    /\ forwarded_no = 0
    /\ cmd_no = 0
    /\ conn_log = <<>>
    /\ client_shut = FALSE
    /\ server_shut = FALSE
    /\ stats_conn = [opened |-> 0, closed |-> 0]

handshakeVars == <<extracted_user, hs_state, round_trips, hs_log>>

commandVars == <<pkt, policy_result, inj_result, upstream, client_err,
                 stats_on_query, eval_calls, forwarded_no>>

riteVars == <<conn_log, client_shut, server_shut, stats_conn>>

\* co_await of an operation: the coroutine suspends at label.
AwaitOp(label, phase) ==
    /\ run_pc' = label
    /\ io' = "pending"
    /\ rd' = phase

\* The same, where run neither logs, nor shuts a socket, nor counts.
Await(label, phase) == AwaitOp(label, phase) /\ UNCHANGED riteVars

\* read_one_packet / read_packet begin with the 4-byte header.
StartRead(label) == Await(label, "hdr") /\ wire' = NoWrite

\* async_write of a packet to the client or to the server.
StartWrite(label, to, packet) ==
    /\ Await(label, "none")
    /\ wire' = [to |-> to, packet |-> packet]

\* run returns: state_ = kClosed, and stats_guard is destroyed
\* (~StatsGuard, lines 537-540).
Return ==
    /\ run_pc' = "done"
    /\ io' = "idle"
    /\ rd' = "none"
    /\ wire' = NoWrite
    /\ state_' = "kClosed"
    /\ stats_conn' = [stats_conn EXCEPT !.closed = @ + 1]

\* The end of run after the command loop (lines 852-872), log being the
\* connection events logged before: the disconnect is logged and both
\* sockets are shut down and closed.
Teardown(log) ==
    /\ Return
    /\ conn_log' = Append(log, "disconnect")
    /\ client_shut' = TRUE
    /\ server_shut' = TRUE

Finish == Teardown(conn_log)

\* The co_return after a failed connect (lines 570-575): the client socket
\* alone is shut down and closed.
ReturnConnectFailed ==
    /\ Return
    /\ client_shut' = TRUE
    /\ UNCHANGED <<conn_log, server_shut>>

\* A run that goes on to the command loop whatever relay_handshake returned.
handshake_result_unchecked ==
    /\ AwaitOp("cmd_read", "hdr")
    /\ wire' = NoWrite
    /\ state_' = "kReady"
    /\ UNCHANGED riteVars

\* The co_return after a failed handshake (lines 588-596): both sockets are
\* shut down and closed.
ReturnHandshakeFailed ==
    /\ Return
    /\ client_shut' = TRUE
    /\ server_shut' = TRUE
    /\ UNCHANGED conn_log

\* The top of the command loop (lines 619-626): leave when closing_ is set,
\* else read the next client packet.
Continue(ready_state) ==
    IF closing_ THEN Finish
    ELSE StartRead("cmd_read") /\ state_' = ready_state

\* The handshake is complete (lines 602-626): state_ = kReady, the connect
\* is logged, and run enters the command loop.
EnterCommandLoop ==
    IF closing_ THEN Teardown(Append(conn_log, "connect"))
    ELSE /\ AwaitOp("cmd_read", "hdr")
         /\ wire' = NoWrite
         /\ state_' = "kReady"
         /\ conn_log' = Append(conn_log, "connect")
         /\ UNCHANGED <<client_shut, server_shut, stats_conn>>

Settled == io \in {"ok", "err"}

\* read_one_packet has returned: with an error, or with the whole packet
\* (the payload is read only when the header announces one).
ReadReturned ==
    \/ io = "err"
    \/ io = "ok" /\ (rd = "payload" \/ rx.payload = <<>>)

\* A session that forwards whatever the verdict.
never_block(verdict) == FALSE

\* Line 713.
ShouldBlock(verdict) == verdict.action = "kBlock"

\* A session that rejects COM_STMT_PREPARE alone.
only_prepare_rejected(command_type) == command_type = "kComStmtPrepare"

\* Lines 798-800.
IsPreparedStatement(command_type) ==
    command_type \in {"kComStmtPrepare", "kComStmtExecute", "kComStmtReset"}

\* A session that goes back to the client right after the forward.
forward_without_relay(fwd_ok) == IF fwd_ok THEN "continue" ELSE "break"

\* Lines 749-758 and 832-840: after the forward, the response relayer.
AfterForwardWrite(fwd_ok) == IF fwd_ok THEN "relay" ELSE "break"

\* run is resumed for the first time (lines 519-550).
Start ==
    /\ run_pc = "spawned"
    /\ ctx_' = [ctx_ EXCEPT !.client_ip = ClientIp]
    /\ stats_conn' = [stats_conn EXCEPT !.opened = @ + 1]
    /\ AwaitOp("connect", "none")
    /\ wire' = NoWrite
    /\ UNCHANGED <<conn_log, client_shut, server_shut>>
    /\ UNCHANGED <<rx, closing_, state_, handshakeVars, relay, commandVars,
                   relay_open, cmd_no>>
    /\ UNCHANGED nonSessionVars

\* async_connect has returned (lines 552-568, 581 and 772-800).
ConnectReturns ==
    /\ run_pc = "connect"
    /\ Settled
    /\ IF io = "err"
       THEN StartWrite("connect_err_write", "client", make_error(2003, kCantConnect, 0))
       ELSE StartRead("hs_read")
    /\ hs_state' = "kWaitServerGreeting"
    /\ round_trips' = 0
    /\ extracted_user' = <<>>
    /\ UNCHANGED <<rx, closing_, state_, ctx_, relay, commandVars, relay_open, cmd_no, hs_log>>
    /\ UNCHANGED nonSessionVars

\* The ERR 2003 for the client was written or not (lines 570-575).
ConnectErrorWritten ==
    /\ run_pc = "connect_err_write"
    /\ Settled
    /\ ReturnConnectFailed
    /\ UNCHANGED <<rx, closing_, ctx_, handshakeVars, relay, commandVars,
                   relay_open, cmd_no>>
    /\ UNCHANGED nonSessionVars

\* read_one_packet / read_packet: the header is in, the payload is awaited
\* (lines 100-116 of session.cpp, 63-81 of handshake.cpp).
ReadPayload ==
    /\ run_pc \in {"hs_read", "cmd_read", "relay_read"}
    /\ rd = "hdr"
    /\ io = "ok"
    /\ rx.payload # <<>>
    /\ Await(run_pc, "payload")
    /\ UNCHANGED wire
    /\ UNCHANGED <<rx, closing_, state_, ctx_, handshakeVars, relay, commandVars,
                   relay_open, cmd_no>>
    /\ UNCHANGED nonSessionVars

\* The HandshakeResponse relay_handshake has read, and what
\* extract_handshake_response_fields made of it.
ResponseRead(payload) ==
    [read |-> TRUE, ok |-> extract_handshake_response_fields(payload).ok,
     user |-> extract_handshake_response_fields(payload).user]

\* relay_handshake returns a failure to run (lines 585-597); its locals are
\* gone.
HandshakeFails(code) ==
    /\ ReturnHandshakeFailed
    /\ hs_state' = "kFailed"
    /\ round_trips' = 0
    /\ extracted_user' = <<>>
    /\ hs_log' = [hs_log EXCEPT !.error = code, !.state = hs_state,
                                !.response = IF hs_state = "kWaitClientResponse" /\ io = "ok"
                                             THEN ResponseRead(rx.payload) ELSE @]
    /\ UNCHANGED ctx_

\* The byte with bit n cleared.
ClearBit(byte, n) == IF BitSet(byte, n) THEN byte - Pow2(n) ELSE byte

\* strip_unsupported_capabilities: the server greeting without CLIENT_SSL,
\* CLIENT_DEPRECATE_EOF and CLIENT_QUERY_ATTRIBUTES; unchanged when the
\* Handshake v10 layout cannot be walked.  Offsets are from 0.
strip_unsupported_capabilities(packet) ==
    LET payload == packet.payload
        nul     == FindNul(payload, 1)
        pos     == nul + 1 + 13
    IN  IF Len(payload) < 2 THEN packet
        ELSE IF nul >= Len(payload) THEN packet
        ELSE IF pos + 7 > Len(payload) THEN packet
        ELSE [packet EXCEPT !.payload =
                 [payload EXCEPT ![pos + 2] = ClearBit(@, 3),
                                 ![pos + 7] = ClearBit(ClearBit(@, 0), 3)]]

\* strip_unsupported_client_capabilities: the same three bits of the 4-byte
\* capability flags at the head of the HandshakeResponse.
strip_unsupported_client_capabilities(packet) ==
    IF Len(packet.payload) < 4 THEN packet
    ELSE [packet EXCEPT !.payload =
             [packet.payload EXCEPT ![2] = ClearBit(@, 3),
                                    ![4] = ClearBit(ClearBit(@, 0), 3)]]

\* A relay that answers a failed login with an error packet of its own.
error_packet_rewritten(state, packet, transition) ==
    IF transition.action = "kTerminate"
    THEN [to |-> "client", packet |-> make_error(1045, kAccessDenied, packet.sequence_id)]
    ELSE [to |-> IF transition.action = "kRelayToServer" THEN "server" ELSE "client",
          packet |-> packet]

\* What relay_handshake writes for a transition, and to whom (lines 829-903).
HandshakeWrite(state, packet, transition) ==
    CASE transition.action = "kRelayToClient" ->
           [to |-> "client",
            packet |-> IF state = "kWaitServerGreeting"
                       THEN strip_unsupported_capabilities(packet) ELSE packet]
      [] transition.action = "kRelayToServer" ->
           [to |-> "server",
            packet |-> IF state = "kWaitClientResponse"
                       THEN strip_unsupported_client_capabilities(packet) ELSE packet]
      [] OTHER -> [to |-> "client", packet |-> packet]

\* The packet relay_handshake is about to write to the client is an
\* AuthSwitchRequest of the server.
RelaysAuthSwitch(state, payload, transition) ==
    /\ transition.action = "kRelayToClient"
    /\ state # "kWaitServerGreeting"
    /\ classify_auth_response(payload) = "kAuthSwitch"

\* A relay that passes the HandshakeResponse on whatever the extraction said.
extraction_not_checked(state, fields) == FALSE

\* The HandshakeResponse whose fields cannot be extracted ends the handshake
\* (lines 809-817).
ExtractionRejected(state, fields) == state = "kWaitClientResponse" /\ ~fields.ok

\* relay_handshake has read a packet (lines 800-827 and 905-914): extract
\* the user from the HandshakeResponse, decide the transition, begin the
\* write it asks for.
HandshakePacket ==
    /\ run_pc = "hs_read"
    /\ ReadReturned
    /\ LET fields     == extract_handshake_response_fields(rx.payload)
           transition == process_handshake_packet(hs_state, rx.payload, round_trips)
       IN  IF io = "err" THEN HandshakeFails(kMalformedPacket)
           ELSE IF ExtractionRejected(hs_state, fields)
           THEN HandshakeFails(kMalformedPacket)
           ELSE IF ~transition.ok THEN HandshakeFails(transition.code)
           ELSE IF transition.action = "kTerminateNoRelay"
           THEN HandshakeFails(kMalformedPacket)
           ELSE /\ StartWrite("hs_write", HandshakeWrite(hs_state, rx, transition).to,
                                       HandshakeWrite(hs_state, rx, transition).packet)
                /\ hs_log' = [hs_log EXCEPT
                       !.auth_switches =
                           IF RelaysAuthSwitch(hs_state, rx.payload, transition)
                           THEN @ + 1 ELSE @,
                       !.relayed = IF @ < MaxRelayed THEN @ + 1 ELSE @,
                       !.response = IF hs_state = "kWaitClientResponse"
                                    THEN ResponseRead(rx.payload) ELSE @]
                /\ extracted_user' = IF hs_state = "kWaitClientResponse"
                                     THEN fields.user ELSE extracted_user
                /\ UNCHANGED <<state_, ctx_, hs_state, round_trips>>
    /\ UNCHANGED <<rx, closing_, relay, commandVars, relay_open, cmd_no>>
    /\ UNCHANGED nonSessionVars

\* A relay that marks the handshake done and leaves the user unset.
done_without_user(ctx, user) == [ctx EXCEPT !.handshake_done = TRUE]

\* ctx.db_user = extracted_user; ctx.handshake_done = true (lines 889-891).
CompletedContext(ctx, user) == [ctx EXCEPT !.db_user = user, !.handshake_done = TRUE]

\* The write relay_handshake awaited has returned (lines 829-925), and where
\* the handshake is complete run enters the command loop (lines 602-626).
HandshakeWritten ==
    /\ run_pc = "hs_write"
    /\ Settled
    /\ LET transition == process_handshake_packet(hs_state, rx.payload, round_trips)
       IN  IF transition.action = "kTerminate" THEN HandshakeFails(kMalformedPacket)
           ELSE IF io = "err" THEN HandshakeFails(kInternalError)
           ELSE IF transition.action = "kComplete"
           THEN /\ ctx_' = CompletedContext(ctx_, extracted_user)
                /\ hs_state' = "kDone"
                /\ round_trips' = 0
                /\ extracted_user' = <<>>
                /\ hs_log' = [hs_log EXCEPT !.relayed = 0]
                /\ EnterCommandLoop
           ELSE /\ round_trips' =
                       IF transition.next_state
                              \in {"kWaitClientMoreData", "kWaitClientAuthSwitch"}
                       THEN round_trips + 1 ELSE round_trips
                /\ hs_state' = transition.next_state
                /\ StartRead("hs_read")
                /\ UNCHANGED <<state_, ctx_, extracted_user, hs_log>>
    /\ UNCHANGED <<rx, closing_, relay, commandVars, relay_open, cmd_no>>
    /\ UNCHANGED nonSessionVars

\* The command in rx becomes the command in hand.
NewCommand(verdict, injection, forwarded, errors, evaluations) ==
    /\ pkt' = rx
    /\ policy_result' = verdict
    /\ inj_result' = injection
    /\ upstream' = forwarded
    /\ client_err' = errors
    /\ stats_on_query' = "none"
    /\ eval_calls' = eval_calls + evaluations
    /\ forwarded_no' = forwarded_no + Len(forwarded)

\* A block reply that repeats the sequence id of the request.
block_reply_same_seq(cmd) == make_error(1045, kAccessDenied, cmd.sequence_id)

\* The ERR packet that answers a blocked query (lines 714-718).
BlockReply(cmd) == make_error(1045, kAccessDenied, (cmd.sequence_id + 1) % 256)

\* read_one_packet(client_socket_) has returned in the command loop: lines
\* 628-832 up to the write the command leads to.
ClientCommand ==
    /\ run_pc = "cmd_read"
    /\ ReadReturned
    /\ \E cmd \in {extract_command(rx)} :
       \E parse_result \in {parse(cmd.query)} :
       \E verdict \in {PipelineVerdict(SessionPolicy, parse_result, ctx_, Noon)} :
       \E injection \in {PipelineInjection(parse_result, cmd.query)} :
       \E reply_seq \in {(cmd.sequence_id + 1) % 256} :
           IF io = "err"
           THEN /\ Finish
                /\ UNCHANGED <<commandVars, relay_open>>
           ELSE IF ~cmd.ok
           THEN /\ Finish
                /\ NewCommand(NoVerdict, NoInjection, <<>>, <<>>, 0)
                /\ UNCHANGED relay_open
           ELSE IF cmd.command_type = "kComQuit"
           THEN /\ StartWrite("quit_write", "server", rx)
                /\ NewCommand(NoVerdict, NoInjection, <<rx>>, <<>>, 0)
                /\ UNCHANGED <<state_, relay_open>>
           ELSE IF cmd.command_type = "kComQuery"
           THEN /\ state_' = "kProcessingQuery"
                /\ IF ShouldBlock(verdict)
                   THEN /\ StartWrite("block_write", "client", BlockReply(cmd))
                        /\ NewCommand(verdict, injection, <<>>, <<BlockReply(cmd)>>, 1)
                        /\ UNCHANGED relay_open
                   ELSE /\ StartWrite("fwd_write", "server", rx)
                        /\ NewCommand(verdict, injection, <<rx>>, <<>>, 1)
                        /\ relay_open' = TRUE
           ELSE IF IsPreparedStatement(cmd.command_type)
           THEN /\ StartWrite("stmt_err_write", "client",
                           make_error(1235, kNotSupported, reply_seq))
                /\ NewCommand(NoVerdict, NoInjection, <<>>,
                              <<make_error(1235, kNotSupported, reply_seq)>>, 0)
                /\ UNCHANGED <<state_, relay_open>>
           ELSE /\ StartWrite("fwd_write", "server", rx)
                /\ NewCommand(NoVerdict, NoInjection, <<rx>>, <<>>, 0)
                /\ relay_open' = TRUE
                /\ UNCHANGED state_
    /\ UNCHANGED <<rx, closing_, ctx_, handshakeVars, relay, cmd_no>>
    /\ UNCHANGED nonSessionVars

\* COM_QUIT was passed on or not: leave the loop (lines 664-669).
QuitForwarded ==
    /\ run_pc = "quit_write"
    /\ Settled
    /\ Finish
    /\ UNCHANGED <<rx, closing_, ctx_, handshakeVars, relay, commandVars,
                   relay_open, cmd_no>>
    /\ UNCHANGED nonSessionVars

\* The ERR 1045 was written or not: count the query as blocked and go on
\* (lines 722-741).
BlockErrWritten ==
    /\ run_pc = "block_write"
    /\ Settled
    /\ stats_on_query' = "blocked"
    /\ Continue("kReady")
    /\ UNCHANGED <<pkt, policy_result, inj_result, upstream, client_err, eval_calls,
                   forwarded_no>>
    /\ UNCHANGED <<rx, closing_, ctx_, handshakeVars, relay, relay_open, cmd_no>>
    /\ UNCHANGED nonSessionVars

\* The ERR 1235 was written or not (lines 813-825).
StmtErrWritten ==
    /\ run_pc = "stmt_err_write"
    /\ Settled
    /\ IF io = "err" THEN Finish ELSE Continue(state_)
    /\ UNCHANGED <<rx, closing_, ctx_, handshakeVars, relay, commandVars,
                   relay_open, cmd_no>>
    /\ UNCHANGED nonSessionVars

\* write_packet_raw(server_socket_, pkt) has returned (lines 749-758,
\* 832-840): enter relay_server_response, or leave the loop.
Forwarded ==
    /\ run_pc = "fwd_write"
    /\ Settled
    /\ LET next == AfterForwardWrite(io = "ok")
       IN  CASE next = "relay" ->
                  /\ StartRead("relay_read")
                  /\ relay' = NoRelay
                  /\ UNCHANGED <<state_, relay_open>>
             [] next = "continue" ->
                  /\ Continue(state_)
                  /\ UNCHANGED <<relay, relay_open>>
             [] OTHER ->
                  /\ Finish
                  /\ UNCHANGED <<relay, relay_open>>
    /\ UNCHANGED <<rx, closing_, ctx_, handshakeVars, commandVars, cmd_no>>
    /\ UNCHANGED nonSessionVars

\* A relay that numbers the packets it passes on itself.
relay_write_renumbered(packet) ==
    [to |-> "client", packet |-> Packet((packet.sequence_id + 1) % 256, packet.payload)]

\* write_packet_raw(client_socket_, pkt): the packet read from the server
\* goes to the client as it is (lines 336-339, 419-424).
RelayWrite(packet) == [to |-> "client", packet |-> packet]

\* relay_server_response has read a server packet (lines 326-335, 409-418):
\* pass it to the client, or return the read error to run, which leaves the
\* loop (lines 759-763, 841-845).
RelayPacket ==
    /\ run_pc = "relay_read"
    /\ ReadReturned
    /\ IF io = "err"
       THEN /\ Finish
            /\ relay_open' = FALSE
       ELSE /\ StartWrite("relay_write", RelayWrite(rx).to, RelayWrite(rx).packet)
            /\ UNCHANGED <<state_, relay_open>>
    /\ UNCHANGED <<rx, closing_, ctx_, handshakeVars, relay, commandVars, cmd_no>>
    /\ UNCHANGED nonSessionVars

\* The packet was passed to the client or not (lines 336-406, 419-508): on
\* the last packet of the response relay_server_response returns and run
\* counts the query and goes on (lines 765-789, 847).
RelayWritten ==
    /\ run_pc = "relay_write"
    /\ Settled
    /\ LET request_type == extract_command(pkt).command_type
           next == IF relay.state = "kFirst" THEN RelayFirst(rx, request_type)
                   ELSE RelayNext(relay, rx, request_type)
       IN  IF io = "err"
           THEN /\ Finish
                /\ relay_open' = FALSE
                /\ UNCHANGED <<relay, stats_on_query>>
           ELSE IF next.state = "kDone"
           THEN /\ relay' = NoRelay
                /\ relay_open' = FALSE
                /\ IF request_type = "kComQuery"
                   THEN stats_on_query' = "passed" /\ Continue("kReady")
                   ELSE UNCHANGED stats_on_query /\ Continue(state_)
           ELSE /\ relay' = next
                /\ StartRead("relay_read")
                /\ UNCHANGED <<state_, relay_open, stats_on_query>>
    /\ UNCHANGED <<pkt, policy_result, inj_result, upstream, client_err, eval_calls,
                   forwarded_no>>
    /\ UNCHANGED <<rx, closing_, ctx_, handshakeVars, cmd_no>>
    /\ UNCHANGED nonSessionVars

\* The packets that can arrive on the socket the session is reading.
Arrivals ==
    CASE run_pc = "hs_read" ->
           (CASE hs_state = "kWaitServerGreeting" -> ServerGreetings
              [] hs_state = "kWaitClientResponse" -> ClientResponses
              [] hs_state \in {"kWaitClientAuthSwitch", "kWaitClientMoreData"} ->
                   ClientAuthPackets
              [] OTHER -> ServerAuthPackets)
      [] run_pc = "cmd_read" -> IF cmd_no < MaxCommands THEN ClientCommands ELSE {}
      [] run_pc = "relay_read" -> ServerResponses
      [] OTHER -> {}

\* The peer's next packet arrives: the header read completes.
HeaderArrives ==
    /\ io = "pending"
    /\ rd = "hdr"
    /\ \E packet \in Arrivals : rx' = packet
    /\ io' = "ok"
    /\ cmd_no' = IF run_pc = "cmd_read" THEN cmd_no + 1 ELSE cmd_no
    /\ UNCHANGED <<run_pc, rd, closing_, state_, ctx_, handshakeVars, relay,
                   commandVars, relay_open>>
    /\ UNCHANGED <<nonSessionVars, riteVars, wire>>

\* The rest of the packet arrives: the payload read completes.
PayloadArrives ==
    /\ io = "pending"
    /\ rd = "payload"
    /\ io' = "ok"
    /\ UNCHANGED <<run_pc, rd, rx, closing_, state_, ctx_, handshakeVars, relay,
                   commandVars, relay_open, cmd_no>>
    /\ UNCHANGED <<nonSessionVars, riteVars, wire>>

\* The connect or the write completes.
Completes ==
    /\ io = "pending"
    /\ rd = "none"
    /\ io' = "ok"
    /\ UNCHANGED <<run_pc, rd, rx, closing_, state_, ctx_, handshakeVars, relay,
                   commandVars, relay_open, cmd_no>>
    /\ UNCHANGED <<nonSessionVars, riteVars, wire>>

\* The awaited operation ends with an error (end of file, reset, refused).
Fails ==
    /\ io = "pending"
    /\ io' = "err"
    /\ UNCHANGED <<run_pc, rd, rx, closing_, state_, ctx_, handshakeVars, relay,
                   commandVars, relay_open, cmd_no>>
    /\ UNCHANGED <<nonSessionVars, riteVars, wire>>

\* Session::close (lines 882-893), called by ProxyServer::stop from a handler
\* of the same io_context: set closing_ and cancel both sockets.  cancel ends
\* an operation that is still pending with operation_aborted; an operation
\* that has completed, and whose coroutine has not been resumed yet, keeps
\* its result.
Close ==
    /\ run_pc # "done"
    /\ ~closing_
    /\ closing_' = TRUE
    /\ io' = IF io = "pending" THEN "err" ELSE io
    /\ UNCHANGED <<run_pc, rd, rx, state_, ctx_, handshakeVars, relay,
                   commandVars, relay_open, cmd_no>>
    /\ UNCHANGED <<nonSessionVars, riteVars, wire>>

\* The steps of the coroutine.
SessionStep ==
    \/ Start
    \/ ConnectReturns
    \/ ConnectErrorWritten
    \/ ReadPayload
    \/ HandshakePacket
    \/ HandshakeWritten
    \/ ClientCommand
    \/ QuitForwarded
    \/ BlockErrWritten
    \/ StmtErrWritten
    \/ Forwarded
    \/ RelayPacket
    \/ RelayWritten

SessionNext ==
    \/ SessionStep
    \/ HeaderArrives
    \/ PayloadArrives
    \/ Completes
    \/ Fails
    \/ Close

(***************************************************************************)
(* The server: ProxyServer::run, ProxyServer::stop and                     *)
(* ProxyServer::policy_reload (proxy_server.cpp).  Everything runs on the  *)
(* one thread of ioc.run() (main.cpp): the accept loop, the signal         *)
(* handlers and every session are handlers of the same io_context, and a   *)
(* coroutine is interrupted only where it awaits.  Of a session the        *)
(* server sees its registration, its close() and the return of its run;    *)
(* what run does in between is the session model above, kept here as the   *)
(* operation run awaits.                                                   *)
(***************************************************************************)
MaxConnections == 2

Connections == 1..MaxConnections

\* No session of that id was created.
NoRun == [io |-> "none", op |-> "none", closing |-> FALSE]

\* stats_->snapshot().active_sessions: a session counts from the
\* on_connection_open at the start of its run to the end of its run.
active_sessions ==
    Cardinality({s \in Connections : sess[s].io \notin {"none", "spawned", "done"}})

\* The state when ProxyServer::run has returned and ioc.run() begins
\* (proxy_server.cpp lines 75-185).
ServerInit ==
    /\ stopping_ = FALSE
    /\ sessions_ = {}
    /\ next_session_id_ = 1
    /\ io_stopped = FALSE
    /\ acc_pc = "spawned"
    /\ acc_ec = "ok"
    /\ acc_conn = 0
    /\ arrivals = 0
    /\ conn_fate = [c \in Connections |-> "none"]
    /\ after_stop = {}
    /\ sess = [s \in Connections |-> NoRun]
    /\ health = "kHealthy"
    /\ uds_running = TRUE
    /\ max_connections \in {0, 1}

ServerIdle ==
    /\ stopping_ = FALSE
    /\ sessions_ = {}
    /\ next_session_id_ = 1
    /\ io_stopped = FALSE
    /\ acc_pc = "idle"
    /\ acc_ec = "ok"
    /\ acc_conn = 0
    /\ arrivals = 0
    /\ conn_fate = [c \in Connections |-> "none"]
    /\ after_stop = {}
    /\ sess = [s \in Connections |-> NoRun]
    /\ health = "kHealthy"
    /\ uds_running = FALSE
    /\ max_connections = 0

\* co_spawn(io_ctx, session->run(), ...) (lines 268-271) from the accept
\* loop: the coroutine is queued on the io_context and starts when the accept
\* loop has suspended, or it is started at once and runs to its first
\* co_await, the connect, before co_spawn returns.  Which of the two depends
\* on the co_spawn of the Boost.Asio the server is built with.
SpawnedRuns ==
    { [NoRun EXCEPT !.io = "spawned"],
      [NoRun EXCEPT !.io = "pending", !.op = "connect"] }

\* The accept loop's condition, while (!stopping_), and the async_accept it
\* awaits next (lines 195-199).
NextAccept == acc_pc' = IF stopping_ THEN "done" ELSE "accept"

\* An accept loop that goes on creating sessions during the shutdown.
never_reject(flag) == FALSE

\* if (stopping_) after a successful accept (line 209).
RejectWhenStopping(flag) == flag

\* The accept loop coroutine starts (lines 185-195).
AcceptStarts ==
    /\ ~io_stopped
    /\ acc_pc = "spawned"
    /\ NextAccept
    /\ UNCHANGED <<stopping_, sessions_, next_session_id_, io_stopped, acc_ec,
                   acc_conn, arrivals, conn_fate, after_stop, sess, health,
                   uds_running, max_connections>>
    /\ UNCHANGED nonServerVars

\* A client connects: the pending async_accept completes with its socket.
ConnectionArrives ==
    /\ ~io_stopped
    /\ acc_pc = "accept"
    /\ arrivals < MaxConnections
    /\ arrivals' = arrivals + 1
    /\ acc_conn' = arrivals + 1
    /\ acc_ec' = "ok"
    /\ acc_pc' = "accepted"
    /\ conn_fate' = [conn_fate EXCEPT ![arrivals + 1] = "accepted"]
    /\ after_stop' = IF stopping_ THEN after_stop \cup {arrivals + 1} ELSE after_stop
    /\ UNCHANGED <<stopping_, sessions_, next_session_id_, io_stopped, sess, health,
                   uds_running, max_connections>>
    /\ UNCHANGED nonServerVars

\* The pending async_accept completes with an error.  Nothing closes or
\* cancels the acceptor, so the error is never operation_aborted.
AcceptFails ==
    /\ ~io_stopped
    /\ acc_pc = "accept"
    /\ acc_ec' = "error"
    /\ acc_conn' = 0
    /\ acc_pc' = "accepted"
    /\ UNCHANGED <<stopping_, sessions_, next_session_id_, io_stopped, arrivals,
                   conn_fate, after_stop, sess, health, uds_running,
                   max_connections>>
    /\ UNCHANGED nonServerVars

\* The accept loop is resumed with the result of async_accept (lines
\* 201-290) and goes round to the next async_accept.
AcceptReturns ==
    /\ ~io_stopped
    /\ acc_pc = "accepted"
    /\ NextAccept
    /\ acc_conn' = 0
    /\ IF acc_ec = "error"
       THEN UNCHANGED <<sessions_, next_session_id_, conn_fate, sess, health>>
       ELSE IF RejectWhenStopping(stopping_)
       THEN /\ conn_fate' = [conn_fate EXCEPT ![acc_conn] = "closed"]
            /\ UNCHANGED <<sessions_, next_session_id_, sess, health>>
       ELSE IF max_connections > 0 /\ active_sessions >= max_connections
       THEN /\ conn_fate' = [conn_fate EXCEPT ![acc_conn] = "closed"]
            /\ health' = "kUnhealthy"
            /\ UNCHANGED <<sessions_, next_session_id_, sess>>
       ELSE /\ health' = IF max_connections > 0 THEN "kHealthy" ELSE health
            /\ next_session_id_' = next_session_id_ + 1
            /\ sessions_' = sessions_ \cup {next_session_id_}
            /\ \E run \in SpawnedRuns : sess' = [sess EXCEPT ![next_session_id_] = run]
            /\ conn_fate' = [conn_fate EXCEPT ![acc_conn] = "session"]
    /\ UNCHANGED <<stopping_, io_stopped, acc_ec, arrivals, after_stop, uds_running,
                   max_connections>>
    /\ UNCHANGED nonServerVars

\* Session::close on the run of a session (session.cpp lines 882-893):
\* closing_ is set and the sockets' pending operations are cancelled; an
\* operation that has already completed keeps its result.
ClosedRun(r) ==
    [r EXCEPT !.io = IF r.io = "pending" THEN "err" ELSE r.io, !.closing = TRUE]

\* The operations run can await next (Session::run, relay_handshake,
\* relay_server_response): the connect first; after a failed connect the
\* write of the ERR packet; after a read the next read or a write; after a
\* write a read.
NextOps(r) ==
    CASE r.io = "spawned" -> {"connect"}
      [] r.io = "ok" /\ r.op = "connect" -> {"read"}
      [] r.io = "err" /\ r.op = "connect" -> {"err_write"}
      [] r.io = "ok" /\ r.op = "read" -> {"read", "write"}
      [] r.io = "ok" /\ r.op = "write" -> {"read"}
      [] OTHER -> {}

\* run can return: after a failed read or write, after the ERR packet of a
\* failed connect, and after a read or write that leaves nothing to do.
CanReturn(r) ==
    \/ r.io \in {"ok", "err"} /\ r.op \in {"read", "write", "err_write"}

\* A session's run is resumed and awaits its next operation.
SessionAwaits(s) ==
    /\ ~io_stopped
    /\ \E op \in NextOps(sess[s]) :
           sess' = [sess EXCEPT ![s].io = "pending", ![s].op = op]
    /\ UNCHANGED <<stopping_, sessions_, next_session_id_, io_stopped, acc_pc, acc_ec,
                   acc_conn, arrivals, conn_fate, after_stop, health, uds_running,
                   max_connections>>
    /\ UNCHANGED nonServerVars

\* A session's run is resumed and returns; the completion handler of its
\* co_spawn removes it from the registry and, during the shutdown, stops
\* the io_context when the registry is empty (lines 268-290).
SessionReturns(s) ==
    /\ ~io_stopped
    /\ CanReturn(sess[s])
    /\ sess' = [sess EXCEPT ![s].io = "done"]
    /\ sessions_' = sessions_ \ {s}
    /\ io_stopped' = (stopping_ /\ sessions_' = {})
    /\ UNCHANGED <<stopping_, next_session_id_, acc_pc, acc_ec, acc_conn, arrivals,
                   conn_fate, after_stop, health, uds_running, max_connections>>
    /\ UNCHANGED nonServerVars

\* The peer of a session sends what the session's read waits for.
PeerSends(s) ==
    /\ ~io_stopped
    /\ sess[s].io = "pending"
    /\ sess[s].op = "read"
    /\ sess' = [sess EXCEPT ![s].io = "ok"]
    /\ UNCHANGED <<stopping_, sessions_, next_session_id_, io_stopped, acc_pc, acc_ec,
                   acc_conn, arrivals, conn_fate, after_stop, health, uds_running,
                   max_connections>>
    /\ UNCHANGED nonServerVars

\* A session's connect or write ends, well or not, without the peer sending
\* anything.
WriteEnds(s) ==
    /\ ~io_stopped
    /\ sess[s].io = "pending"
    /\ sess[s].op # "read"
    /\ \E result \in {"ok", "err"} : sess' = [sess EXCEPT ![s].io = result]
    /\ UNCHANGED <<stopping_, sessions_, next_session_id_, io_stopped, acc_pc, acc_ec,
                   acc_conn, arrivals, conn_fate, after_stop, health, uds_running,
                   max_connections>>
    /\ UNCHANGED nonServerVars

\* The peer of a session hangs up: the session's read ends with an error.
PeerHangsUp(s) ==
    /\ ~io_stopped
    /\ sess[s].io = "pending"
    /\ sess[s].op = "read"
    /\ sess' = [sess EXCEPT ![s].io = "err"]
    /\ UNCHANGED <<stopping_, sessions_, next_session_id_, io_stopped, acc_pc, acc_ec,
                   acc_conn, arrivals, conn_fate, after_stop, health, uds_running,
                   max_connections>>
    /\ UNCHANGED nonServerVars

\* SIGTERM or SIGINT: the handler of signals_stop calls ProxyServer::stop
\* (lines 153-160 and 311-342).  The signal_set is waited on once.
Stop ==
    /\ ~io_stopped
    /\ ~stopping_
    /\ stopping_' = TRUE
    /\ health' = "kUnhealthy"
    /\ uds_running' = FALSE
    /\ sess' = [s \in Connections |->
                   IF s \in sessions_ THEN ClosedRun(sess[s]) ELSE sess[s]]
    /\ io_stopped' = (sessions_ = {})
    /\ UNCHANGED <<sessions_, next_session_id_, acc_pc, acc_ec, acc_conn, arrivals,
                   conn_fate, after_stop, max_connections>>
    /\ UNCHANGED nonServerVars

\* The steps of the server's own coroutines and of its sessions' runs.
ServerStep ==
    \/ AcceptStarts
    \/ AcceptReturns
    \/ \E s \in Connections : SessionAwaits(s)
    \/ \E s \in Connections : SessionReturns(s)

ServerNext ==
    \/ ServerStep
    \/ ConnectionArrives
    \/ AcceptFails
    \/ \E s \in Connections : PeerSends(s)
    \/ \E s \in Connections : WriteEnds(s)
    \/ \E s \in Connections : PeerHangsUp(s)
    \/ Stop


(***************************************************************************)
(* The policy engine's snapshot: PolicyEngine::evaluate on several threads *)
(* against PolicyEngine::reload, the load at the start of ProxyServer::run *)
(* and ProxyServer::policy_reload on SIGHUP.  config_ is declared          *)
(* std::atomic<std::shared_ptr<PolicyConfig>> (policy_engine.hpp:133): the *)
(* copy evaluate takes of it and the assignment in reload are each one     *)
(* atomic step.                                                            *)
(***************************************************************************)
MaxEvaluators == 1

Evaluators == 1..MaxEvaluators

\* PolicyLoader::load on the file at config_.policy_path: a PolicyConfig, or
\* an error when the file cannot be read, parsed or validated.
PolicyFiles == {"unloadable", "policy_a", "policy_b"}

\* The loader rejects a file without block_patterns (lines 404-417), so the
\* policies it returns have one.
PolicyA == [SessionPolicy EXCEPT !.sql_rules.block_patterns = <<UnionSelectPattern>>]

\* policy_b blocks SELECT where policy_a blocks DROP, and has no access rule.
PolicyB ==
    [PolicyA EXCEPT !.sql_rules.block_statements = <<Str(<<"S","E","L","E","C","T">>)>>,
                    !.access_control = <<>>]

LoadedPolicy(file) ==
    CASE file = "policy_a" -> [ok |-> TRUE, config |-> PolicyA]
      [] file = "policy_b" -> [ok |-> TRUE, config |-> PolicyB]
      [] OTHER -> [ok |-> FALSE]

\* The snapshots reload is called with; reload(nullptr) is legal.
EngineSnapshots == {NoConfig, PolicyA, PolicyB}

EngineQueries ==
    { [ok |-> TRUE, command |-> "kSelect", tables |-> <<>>,
       raw_sql |-> Str(<<"S","E","L","E","C","T"," ","1">>), has_where_clause |-> FALSE],
      [ok |-> TRUE, command |-> "kDrop", tables |-> <<Str(<<"t">>)>>,
       raw_sql |-> Str(<<"D","R","O","P"," ","T","A","B","L","E"," ","t">>),
       has_where_clause |-> FALSE] }

\* No reload has been called since the engine was constructed.
NoReload == [returned |-> FALSE]

Reloaded(new_config) == [returned |-> TRUE, config |-> new_config]

NoCall ==
    [pc |-> "idle", query |-> NoQuery, config |-> NoConfig, installed |-> {},
     after_reload |-> NoReload, result |-> NoVerdict]

EngineIdle ==
    /\ config_ = NoConfig
    /\ policy_file = "unloadable"
    /\ reload_outcome = "none"
    /\ reloaded = NoReload
    /\ ev = [t \in Evaluators |-> NoCall]

\* ProxyServer::run constructs the engine with what the first load of the
\* policy file gave, nullptr when it failed (lines 80-91).
EngineInit ==
    /\ policy_file \in PolicyFiles
    /\ config_ = IF LoadedPolicy(policy_file).ok
                 THEN LoadedPolicy(policy_file).config ELSE NoConfig
    /\ reload_outcome = "none"
    /\ reloaded = NoReload
    /\ ev = [t \in Evaluators |-> NoCall]

\* A thread calls evaluate(query, session).  installed collects the snapshots
\* config_ holds at any moment of the call.
EvaluateStarts(t) ==
    /\ ev[t].pc \in {"idle", "returned"}
    /\ \E query \in EngineQueries :
           ev' = [ev EXCEPT ![t] = [pc |-> "called", query |-> query,
                                    config |-> NoConfig, installed |-> {config_},
                                    after_reload |-> reloaded, result |-> NoVerdict]]
    /\ UNCHANGED <<config_, policy_file, reload_outcome, reloaded>>
    /\ UNCHANGED nonEngineVars

\* const auto config = config_ (line 304): the one read of the shared
\* reference.
EvaluateLoads(t) ==
    /\ ev[t].pc = "called"
    /\ ev' = [ev EXCEPT ![t].pc = "loaded", ![t].config = config_]
    /\ UNCHANGED <<config_, policy_file, reload_outcome, reloaded>>
    /\ UNCHANGED nonEngineVars

\* An evaluation that takes its access rules from the shared reference again.
reread_access_control(loaded, current) ==
    IF loaded.null \/ current.null THEN loaded
    ELSE [loaded EXCEPT !.access_control = current.access_control]

\* The snapshot the steps after line 304 read through the local config.
LocalConfig(loaded, current) == loaded

\* The rest of evaluate (lines 305-627) runs on the local reference, which
\* is released on return.
EvaluateReturns(t) ==
    /\ ev[t].pc = "loaded"
    /\ ev' = [ev EXCEPT ![t].pc = "returned",
                        ![t].config = NoConfig,
                        ![t].result = evaluate(LocalConfig(ev[t].config, config_),
                                               ev[t].query, AppSession, Noon)]
    /\ UNCHANGED <<config_, policy_file, reload_outcome, reloaded>>
    /\ UNCHANGED nonEngineVars

\* A reload that treats nullptr as "no change".
reload_ignoring_null(new_config, current) ==
    IF new_config.null THEN current ELSE new_config

\* PolicyEngine::reload (lines 683-696): config_ = std::move(new_config).
reload(new_config, current) == new_config

\* The calls in flight see the snapshot a reload installs.
Installed(snapshot) ==
    [t \in Evaluators |->
        IF ev[t].pc \in {"called", "loaded"}
        THEN [ev[t] EXCEPT !.installed = @ \cup {snapshot}]
        ELSE ev[t]]

\* Some thread calls reload(new_config).
Reload ==
    /\ \E new_config \in EngineSnapshots :
           /\ config_' = reload(new_config, config_)
           /\ ev' = Installed(reload(new_config, config_))
           /\ reloaded' = Reloaded(new_config)
    /\ UNCHANGED <<policy_file, reload_outcome>>
    /\ UNCHANGED nonEngineVars

\* The policy file is edited on disk.
PolicyFileChanges ==
    /\ \E file \in PolicyFiles \ {policy_file} : policy_file' = file
    /\ UNCHANGED <<config_, reload_outcome, reloaded, ev>>
    /\ UNCHANGED nonEngineVars

\* A reload that installs whatever the loader returned, nothing on failure.
reload_whatever_loaded(result, current) ==
    IF result.ok THEN reload(result.config, current) ELSE NoConfig

\* What policy_reload leaves in config_ (lines 59-67): the loaded config
\* through PolicyEngine::reload, the current one when the load failed.
ReloadedSnapshot(result, current) ==
    IF result.ok THEN reload(result.config, current) ELSE current

\* SIGHUP: the handler of signals_hup calls ProxyServer::policy_reload and
\* waits for the next SIGHUP (lines 162-175 and 55-70).
PolicyReload ==
    /\ config_' = ReloadedSnapshot(LoadedPolicy(policy_file), config_)
    /\ ev' = Installed(ReloadedSnapshot(LoadedPolicy(policy_file), config_))
    /\ reload_outcome' = IF LoadedPolicy(policy_file).ok THEN "reloaded" ELSE "kept"
    /\ reloaded' = IF LoadedPolicy(policy_file).ok
                   THEN Reloaded(LoadedPolicy(policy_file).config) ELSE reloaded
    /\ UNCHANGED policy_file
    /\ UNCHANGED nonEngineVars

EngineNext ==
    \/ \E t \in Evaluators : EvaluateStarts(t)
    \/ \E t \in Evaluators : EvaluateLoads(t)
    \/ \E t \in Evaluators : EvaluateReturns(t)
    \/ Reload
    \/ PolicyFileChanges
    \/ PolicyReload


(***************************************************************************)
(* Harness of the handshake state machine: process_handshake_packet on     *)
(* every state, a packet of each class and every count of round trips      *)
(* around the cap.                                                         *)
(***************************************************************************)
MaxRounds == 11

HandshakeStates ==
    {"kWaitServerGreeting", "kWaitClientResponse", "kWaitServerAuth",
     "kWaitClientAuthSwitch", "kWaitServerAuthSwitch", "kWaitClientMoreData",
     "kWaitServerMoreData", "kDone", "kFailed"}

\* One payload or more of each AuthResponseType, the AuthMoreData ones with
\* and without the fast-auth byte, and a server greeting.
HandshakePayloads ==
    { <<>>, <<0>>, kOkPayload, <<255, 21, 4>>, <<254>>, <<254>> \o Zeros(7),
      <<254>> \o Zeros(8),
      <<254>> \o Str(<<"s","h","a","2","5","6","_","p","a","s","s","w","o","r","d">>) \o <<0>>,
      <<1>>, <<1, 3>>, <<1, 4>>, <<2>>, <<10, 56, 0>>, <<45, 45>> }

MachineInit ==
    /\ hsm_pc = "input"
    /\ hsm_state \in HandshakeStates
    /\ hsm_payload \in HandshakePayloads
    /\ hsm_rounds \in 0..MaxRounds
    /\ hsm_result = HandshakeError("none")

MachineIdle ==
    /\ hsm_pc = "idle"
    /\ hsm_state = "kWaitServerGreeting"
    /\ hsm_payload = <<>>
    /\ hsm_rounds = 0
    /\ hsm_result = HandshakeError("none")

\* detail::process_handshake_packet is called.
ProcessHandshakePacket ==
    /\ hsm_pc = "input"
    /\ hsm_pc' = "done"
    /\ hsm_result' = process_handshake_packet(hsm_state, hsm_payload, hsm_rounds)
    /\ UNCHANGED <<hsm_state, hsm_payload, hsm_rounds>>
    /\ UNCHANGED nonMachineVars

MachineNext == ProcessHandshakePacket


(***************************************************************************)
(* StatsCollector (src/stats/stats_collector.hpp)                          *)
(*                                                                         *)
(* The counters are std::atomic<std::uint64_t>; each fetch_add, fetch_sub  *)
(* and load is one step, and the threads' steps interleave.  The counters  *)
(* are kept to CounterBits bits; the calls are too few to carry an         *)
(* increment past that width, so the one wrap that can occur is the        *)
(* decrement of 0.                                                         *)
(***************************************************************************)
CounterBits == 4

MaxThreads == 2

MaxCalls == 2

kCounterModulus == 2 ^ CounterBits

Threads == 1..MaxThreads

\* The value fetch_add(1) leaves in a counter.
fetch_add(counter) == (counter + 1) % kCounterModulus

\* The value fetch_sub(1) leaves in a counter.
fetch_sub(counter) == (counter - 1) % kCounterModulus

ZeroSnapshot ==
    [total_connections |-> 0, active_sessions |-> 0, total_queries |-> 0,
     blocked_queries |-> 0, window_queries |-> 0]

ReadyCaller == [pc |-> "ready", current |-> 0, calls |-> 0, owed |-> 0]

StatsInit ==
    /\ total_connections_ = 0
    /\ active_sessions_ = 0
    /\ total_queries_ = 0
    /\ blocked_queries_ = 0
    /\ window_queries_ = 0
    /\ caller = [t \in Threads |-> ReadyCaller]
    /\ reader_pc = "ready"
    /\ snap_locals = ZeroSnapshot
    /\ snap = ZeroSnapshot
    /\ opened = 0
    /\ unpaired = FALSE

StatsIdle ==
    /\ total_connections_ = 0
    /\ active_sessions_ = 0
    /\ total_queries_ = 0
    /\ blocked_queries_ = 0
    /\ window_queries_ = 0
    /\ caller = [t \in Threads |-> [ReadyCaller EXCEPT !.pc = "off"]]
    /\ reader_pc = "off"
    /\ snap_locals = ZeroSnapshot
    /\ snap = ZeroSnapshot
    /\ opened = 0
    /\ unpaired = FALSE

counterVars == <<total_connections_, active_sessions_, total_queries_,
                 blocked_queries_, window_queries_>>

readerVars == <<reader_pc, snap_locals, snap>>

\* Thread t calls one of the update methods.
Calls(t) == caller[t].pc = "ready" /\ caller[t].calls < MaxCalls

\* on_connection_open, line 79: total_connections_.fetch_add.
OpenCountsTotal(t) ==
    /\ Calls(t)
    /\ total_connections_' = fetch_add(total_connections_)
    /\ caller' = [caller EXCEPT ![t].pc = "open_active",
                                ![t].calls = @ + 1,
                                ![t].owed = @ + 1]
    /\ opened' = opened + 1
    /\ UNCHANGED <<active_sessions_, total_queries_, blocked_queries_,
                   window_queries_, readerVars, unpaired>>
    /\ UNCHANGED nonStatsVars

\* on_connection_open, line 80: active_sessions_.fetch_add.
OpenCountsActive(t) ==
    /\ caller[t].pc = "open_active"
    /\ active_sessions_' = fetch_add(active_sessions_)
    /\ caller' = [caller EXCEPT ![t].pc = "ready"]
    /\ UNCHANGED <<total_connections_, total_queries_, blocked_queries_,
                   window_queries_, readerVars, opened, unpaired>>
    /\ UNCHANGED nonStatsVars

\* on_connection_close, line 86: current = active_sessions_.load().  The
\* call is unpaired when the thread has no open of its own to close.
CloseLoads(t) ==
    /\ Calls(t)
    /\ caller' = [caller EXCEPT ![t].pc = "close_loaded",
                                ![t].current = active_sessions_,
                                ![t].calls = @ + 1,
                                ![t].owed = IF @ > 0 THEN @ - 1 ELSE 0]
    /\ unpaired' = (unpaired \/ caller[t].owed = 0)
    /\ UNCHANGED <<counterVars, readerVars, opened>>
    /\ UNCHANGED nonStatsVars

\* A close that subtracts whatever it snap_locals.
close_guard_above_one(current) == current > 1

\* on_connection_close, line 87: if (current > 0).
Decrements(current) == current > 0

\* on_connection_close, lines 87-89: the guarded active_sessions_.fetch_sub.
CloseSubtracts(t) ==
    /\ caller[t].pc = "close_loaded"
    /\ active_sessions_' = IF Decrements(caller[t].current)
                           THEN fetch_sub(active_sessions_)
                           ELSE active_sessions_
    /\ caller' = [caller EXCEPT ![t].pc = "ready", ![t].current = 0]
    /\ UNCHANGED <<total_connections_, total_queries_, blocked_queries_,
                   window_queries_, readerVars, opened, unpaired>>
    /\ UNCHANGED nonStatsVars

\* on_query(blocked), line 96: total_queries_.fetch_add.
QueryCountsTotal(t) ==
    /\ Calls(t)
    /\ \E blocked \in BOOLEAN :
           caller' = [caller EXCEPT
                          ![t].pc = IF blocked THEN "query_window_blocked"
                                    ELSE "query_window",
                          ![t].calls = @ + 1]
    /\ total_queries_' = fetch_add(total_queries_)
    /\ UNCHANGED <<total_connections_, active_sessions_, blocked_queries_,
                   window_queries_, readerVars, opened, unpaired>>
    /\ UNCHANGED nonStatsVars

\* on_query, line 97: window_queries_.fetch_add.
QueryCountsWindow(t) ==
    /\ caller[t].pc \in {"query_window", "query_window_blocked"}
    /\ window_queries_' = fetch_add(window_queries_)
    /\ caller' = [caller EXCEPT ![t].pc = IF @ = "query_window_blocked"
                                          THEN "query_blocked" ELSE "ready"]
    /\ UNCHANGED <<total_connections_, active_sessions_, total_queries_,
                   blocked_queries_, readerVars, opened, unpaired>>
    /\ UNCHANGED nonStatsVars

\* on_query, lines 98-100: blocked_queries_.fetch_add when blocked.
QueryCountsBlocked(t) ==
    /\ caller[t].pc = "query_blocked"
    /\ blocked_queries_' = fetch_add(blocked_queries_)
    /\ caller' = [caller EXCEPT ![t].pc = "ready"]
    /\ UNCHANGED <<total_connections_, active_sessions_, total_queries_,
                   window_queries_, readerVars, opened, unpaired>>
    /\ UNCHANGED nonStatsVars

\* One load of snapshot (lines 111-115): the reader goes from one load to
\* the next.
SnapshotLoads(from, to, field, counter) ==
    /\ reader_pc = from
    /\ reader_pc' = to
    /\ snap_locals' = [snap_locals EXCEPT ![field] = counter]
    /\ UNCHANGED <<counterVars, caller, snap, opened, unpaired>>
    /\ UNCHANGED nonStatsVars

SnapshotLoadsTotalConn ==
    SnapshotLoads("ready", "active_sess", "total_connections", total_connections_)

SnapshotLoadsActiveSess ==
    SnapshotLoads("active_sess", "total_q", "active_sessions", active_sessions_)

SnapshotLoadsTotalQ ==
    SnapshotLoads("total_q", "blocked_q", "total_queries", total_queries_)

SnapshotLoadsBlockedQ ==
    SnapshotLoads("blocked_q", "window_q", "blocked_queries", blocked_queries_)

\* snapshot, lines 115-139: the last load, and the StatsSnapshot built from
\* the values loaded (qps and block_rate are computed from them and from the
\* clock).
SnapshotReturns ==
    /\ reader_pc = "window_q"
    /\ reader_pc' = "ready"
    /\ snap' = [snap_locals EXCEPT !.window_queries = window_queries_]
    /\ snap_locals' = ZeroSnapshot
    /\ UNCHANGED <<counterVars, caller, opened, unpaired>>
    /\ UNCHANGED nonStatsVars

StatsNext ==
    \/ \E t \in Threads : OpenCountsTotal(t)
    \/ \E t \in Threads : OpenCountsActive(t)
    \/ \E t \in Threads : CloseLoads(t)
    \/ \E t \in Threads : CloseSubtracts(t)
    \/ \E t \in Threads : QueryCountsTotal(t)
    \/ \E t \in Threads : QueryCountsWindow(t)
    \/ \E t \in Threads : QueryCountsBlocked(t)
    \/ SnapshotLoadsTotalConn
    \/ SnapshotLoadsActiveSess
    \/ SnapshotLoadsTotalQ
    \/ SnapshotLoadsBlockedQ
    \/ SnapshotReturns


(***************************************************************************)
(* MysqlPacket::parse and MysqlPacket::serialize                           *)
(* (src/protocol/mysql_packet.cpp), on the byte sequences of up to         *)
(* MaxPacketBytes bytes over PacketBytes.                                  *)
(***************************************************************************)
MaxPacketBytes == 6

PacketBytes == {0, 1, 2, 255}

PacketInputs == UNION { [1..n -> PacketBytes] : n \in 0..MaxPacketBytes }

kMaxPayloadLen == 16777215

\* detect_packet_type (lines 16-45).
detect_packet_type(payload) ==
    IF payload = <<>> THEN "kUnknown"
    ELSE CASE payload[1] = 255 -> "kError"
           [] payload[1] = 254 -> IF Len(payload) < 9 THEN "kEof" ELSE "kUnknown"
           [] payload[1] = 10 -> "kHandshake"
           [] payload[1] = 3 -> "kComQuery"
           [] payload[1] = 1 -> "kComQuit"
           [] payload[1] = 0 -> "kOk"
           [] OTHER -> "kUnknown"

NoMysqlPacket ==
    [ok |-> FALSE, code |-> "none", sequence_id |-> 0, payload |-> <<>>,
     type |-> "kUnknown"]

\* MysqlPacket::parse (lines 50-88): the payload is the length bytes behind
\* the header, of which data must hold at least that many.
MysqlPacket_parse(data) ==
    LET length == LittleEndian(data, 0, 3)
    IN  IF Len(data) < 4 THEN [NoMysqlPacket EXCEPT !.code = kMalformedPacket]
        ELSE IF Len(data) < 4 + length
             THEN [NoMysqlPacket EXCEPT !.code = kMalformedPacket]
        ELSE [ok |-> TRUE, code |-> "none", sequence_id |-> data[4],
              payload |-> SubSeq(data, 5, 4 + length),
              type |-> detect_packet_type(SubSeq(data, 5, 4 + length))]

\* MysqlPacket::serialize (lines 106-133).
MysqlPacket_serialize(packet) ==
    LET len == Len(packet.payload)
    IN  IF len > kMaxPayloadLen THEN <<>>
        ELSE <<len % 256, (len \div 256) % 256, (len \div 65536) % 256,
               packet.sequence_id>> \o packet.payload

PacketInit ==
    /\ pk_pc = "input"
    /\ pk_data \in PacketInputs
    /\ pk_packet = NoMysqlPacket
    /\ pk_bytes = <<>>

PacketIdle ==
    /\ pk_pc = "idle"
    /\ pk_data = <<>>
    /\ pk_packet = NoMysqlPacket
    /\ pk_bytes = <<>>

\* MysqlPacket::parse(pk_data) is called.
ParsePacket ==
    /\ pk_pc = "input"
    /\ pk_packet' = MysqlPacket_parse(pk_data)
    /\ pk_pc' = "parsed"
    /\ UNCHANGED <<pk_data, pk_bytes>>
    /\ UNCHANGED nonPacketVars

\* serialize() is called on the packet parse returned.
SerializePacket ==
    /\ pk_pc = "parsed"
    /\ pk_packet.ok
    /\ pk_bytes' = MysqlPacket_serialize(pk_packet)
    /\ pk_pc' = "serialized"
    /\ UNCHANGED <<pk_data, pk_packet>>
    /\ UNCHANGED nonPacketVars

PacketNext == ParsePacket \/ SerializePacket


(***************************************************************************)
(* relay_server_response on classic result sets: a column-count packet,    *)
(* that many column definitions, an EOF, text rows, and a final EOF or     *)
(* ERR, numbered from sequence id 1 on and wrapping at 256.                *)
(***************************************************************************)
MaxColumns == 300

MaxRows == 260

ColumnCounts == {1, 2, 250, 251, 253, MaxColumns}

RowCounts == {0, 1, 2, MaxRows}

\* A length-encoded integer below 65536.
LenencInteger(n) == IF n < 251 THEN <<n>> ELSE <<252, n % 256, n \div 256>>

\* A column definition begins with the catalog, the string "def".
ColumnDefinition == <<3>> \o Str(<<"d","e","f">>)

\* A text row of n cells.
TextRow(n, cell) == [i \in 1..(n * Len(cell)) |-> cell[((i - 1) % Len(cell)) + 1]]

\* The cells of the rows: the string "1", or the empty string.
RowCells == { <<1, 49>>, <<0>> }

kEofPayload == <<254, 0, 0, 2, 0>>

kErrPayload == <<255, 40, 4>>

ResultSetLength(columns, rows) == columns + rows + 3

\* Packet k (from 0) of the result set.
ResultSetPacket(columns, rows, cell, last, k) ==
    Packet((k + 1) % 256,
           IF k = 0 THEN LenencInteger(columns)
           ELSE IF k <= columns THEN ColumnDefinition
           ELSE IF k = columns + 1 THEN kEofPayload
           ELSE IF k <= columns + 1 + rows THEN TextRow(columns, cell)
           ELSE last)

ResultSetInit ==
    /\ rs_pc = "relaying"
    /\ rs_set \in [columns : ColumnCounts, rows : RowCounts, cell : RowCells,
                   last : {kEofPayload, kErrPayload},
                   request_type : {"kComQuery", "kComProcessInfo"}]
    /\ rs_read = 0
    /\ rs_relay = NoRelay

ResultSetIdle ==
    /\ rs_pc = "idle"
    /\ rs_set = [columns |-> 0, rows |-> 0, cell |-> <<>>, last |-> <<>>,
                 request_type |-> "none"]
    /\ rs_read = 0
    /\ rs_relay = NoRelay

\* relay_server_response reads the next packet of the result set, passes it
\* to the client and returns or goes on (lines 326-508).
RelayResultSetPacket ==
    /\ rs_pc = "relaying"
    /\ rs_read < ResultSetLength(rs_set.columns, rs_set.rows)
    /\ \E packet \in {ResultSetPacket(rs_set.columns, rs_set.rows, rs_set.cell,
                                      rs_set.last, rs_read)} :
       \E next \in {IF rs_relay.state = "kFirst"
                    THEN RelayFirst(packet, rs_set.request_type)
                    ELSE RelayNext(rs_relay, packet, rs_set.request_type)} :
           /\ rs_relay' = next
           /\ rs_pc' = IF next.state = "kDone" THEN "returned" ELSE "relaying"
    /\ rs_read' = rs_read + 1
    /\ UNCHANGED rs_set
    /\ UNCHANGED nonResultSetVars

ResultSetNext == RelayResultSetPacket


(***************************************************************************)
(* Specifications                                                          *)
(***************************************************************************)
\* Each specification starts one part of the program and leaves the others
\* idle.
InitParser ==
    /\ ParserInit
    /\ PolicyIdle
    /\ SessionIdle
    /\ ServerIdle
    /\ EngineIdle
    /\ MachineIdle
    /\ StatsIdle
    /\ PacketIdle
    /\ ResultSetIdle

InitPolicy ==
    /\ PolicyInit
    /\ ParserIdle
    /\ SessionIdle
    /\ ServerIdle
    /\ EngineIdle
    /\ MachineIdle
    /\ StatsIdle
    /\ PacketIdle
    /\ ResultSetIdle

InitSession ==
    /\ SessionInit
    /\ ParserIdle
    /\ PolicyIdle
    /\ ServerIdle
    /\ EngineIdle
    /\ MachineIdle
    /\ StatsIdle
    /\ PacketIdle
    /\ ResultSetIdle

InitServer ==
    /\ ServerInit
    /\ ParserIdle
    /\ PolicyIdle
    /\ SessionIdle
    /\ EngineIdle
    /\ MachineIdle
    /\ StatsIdle
    /\ PacketIdle
    /\ ResultSetIdle

InitEngine ==
    /\ EngineInit
    /\ ParserIdle
    /\ PolicyIdle
    /\ SessionIdle
    /\ ServerIdle
    /\ MachineIdle
    /\ StatsIdle
    /\ PacketIdle
    /\ ResultSetIdle

InitHandshake ==
    /\ MachineInit
    /\ ParserIdle
    /\ PolicyIdle
    /\ SessionIdle
    /\ ServerIdle
    /\ EngineIdle
    /\ StatsIdle
    /\ PacketIdle
    /\ ResultSetIdle

InitStats ==
    /\ StatsInit
    /\ ParserIdle
    /\ PolicyIdle
    /\ SessionIdle
    /\ ServerIdle
    /\ EngineIdle
    /\ MachineIdle
    /\ PacketIdle
    /\ ResultSetIdle

InitPacket ==
    /\ PacketInit
    /\ ParserIdle
    /\ PolicyIdle
    /\ SessionIdle
    /\ ServerIdle
    /\ EngineIdle
    /\ MachineIdle
    /\ StatsIdle
    /\ ResultSetIdle

InitResultSet ==
    /\ ResultSetInit
    /\ ParserIdle
    /\ PolicyIdle
    /\ SessionIdle
    /\ ServerIdle
    /\ EngineIdle
    /\ MachineIdle
    /\ StatsIdle
    /\ PacketIdle

SpecParser == InitParser /\ [][ParserNext]_vars

SpecPolicy == InitPolicy /\ [][PolicyNext]_vars

SpecSession == InitSession /\ [][SessionNext]_vars

SpecServer == InitServer /\ [][ServerNext]_vars

SpecEngine == InitEngine /\ [][EngineNext]_vars

SpecHandshake == InitHandshake /\ [][MachineNext]_vars

SpecStats == InitStats /\ [][StatsNext]_vars

SpecPacket == InitPacket /\ [][PacketNext]_vars

SpecResultSet == InitResultSet /\ [][ResultSetNext]_vars

\* The coroutine can be resumed: co_spawn has queued it, or the operation it
\* awaits has ended (proxy_server.cpp co_spawn; main.cpp, the one ioc.run()).
\* A step of SessionStep is possible exactly in these states.
Resumable == run_pc = "spawned" \/ (run_pc \notin {"done", "idle"} /\ Settled)

\* The io_context resumes the coroutine whenever it can be resumed (weak
\* fairness of SessionStep, its enabling condition written out as Resumable),
\* and connects and writes end without the peer sending anything; nothing
\* is assumed about bytes arriving.
SpecSessionFair ==
    /\ SpecSession
    /\ ([]<>(~Resumable) \/ []<><<SessionStep>>_vars)
    /\ WF_vars(Completes)

(***************************************************************************)
(* Properties of the session                                               *)
(***************************************************************************)
\* The command in hand, read off its first byte.
QueryInHand == pkt.payload # <<>> /\ pkt.payload[1] = 3

StmtInHand == pkt.payload # <<>> /\ pkt.payload[1] \in {22, 23, 26}

\* C1: a COM_QUERY is written to the server only with a verdict of Allow or
\* Log; with a verdict of Block, whether from evaluate or from
\* evaluate_error, nothing of it is written to the server.
C1_BlockedQueryNeverForwarded ==
    /\ (QueryInHand /\ upstream # <<>>)
           => policy_result.action \in {"kAllow", "kLog"} /\ upstream = <<pkt>>
    /\ policy_result.action = "kBlock" => upstream = <<>>

\* A query that failed classification was answered and counted; nothing
\* went to the server.
C1_Witness ==
    /\ QueryInHand
    /\ policy_result = Block("parse-error")
    /\ stats_on_query = "blocked"
    /\ upstream = <<>>
    /\ forwarded_no = 1

\* The reply to a prepared-statement command: nothing to the server, one
\* ERR 1235 with the sequence id after the request's to the client.
StmtRejected ==
    StmtInHand =>
        /\ upstream = <<>>
        /\ Len(client_err) = 1
        /\ client_err[1].sequence_id = (pkt.sequence_id + 1) % 256
        /\ SubBytes(client_err[1].payload, 0, 3) = <<255, 211, 4>>

StmtReplyReturns == run_pc = "stmt_err_write" /\ run_pc' # "stmt_err_write"

\* Back at the top of the command loop: the next client command is read,
\* unless close() has been called.
BackInLoop == run_pc' = "cmd_read" \/ (closing_ /\ run_pc' = "done")

\* C2 as stated: after the ERR 1235 the session always goes on with the next
\* client command.
C2_StmtRejectedAndContinues ==
    /\ []StmtRejected
    /\ [][StmtReplyReturns => BackInLoop]_vars

\* C2: COM_STMT_PREPARE, COM_STMT_EXECUTE and COM_STMT_RESET write nothing
\* to the server and send the client one ERR 1235 with sequence id
\* request_seq + 1; the session then goes on with the next client command
\* if that write succeeded, and leaves the command loop if it failed.
C2_StmtRejectedContinuesIfWritten ==
    /\ []StmtRejected
    /\ [][StmtReplyReturns =>
            IF io = "ok" THEN BackInLoop ELSE run_pc' = "done"]_vars

\* A COM_STMT_EXECUTE with sequence id 255 was answered with sequence id 0
\* and the session is reading the next command.
C2_Witness ==
    /\ StmtInHand
    /\ pkt.sequence_id = 255
    /\ client_err[1].sequence_id = 0
    /\ run_pc = "cmd_read"
    /\ io = "pending"
    /\ ~closing_

\* C7: a query in which the injection detector finds a pattern is not
\* forwarded and is counted as blocked, whatever the policy verdict.
C7_InjectionBlocked ==
    inj_result.detected => upstream = <<>> /\ stats_on_query # "passed"

\* A client command goes to the server in this step.
CommandForwarded == forwarded_no' = forwarded_no + 1

\* C8: a client command is written to the server only when no earlier
\* command awaits the return of its response relayer; while one does, the
\* session is forwarding it or relaying its response, and the relayer
\* returns to the loop only after a server packet was passed to the client.
C8_OneCommandInFlight ==
    /\ [][CommandForwarded => ~relay_open]_vars
    /\ [](relay_open => run_pc \in {"fwd_write", "relay_read", "relay_write", "done"})
    /\ [][(relay_open /\ ~relay_open' /\ run_pc' = "cmd_read")
             => run_pc = "relay_write" /\ io = "ok"]_vars

\* The second of two forwarded commands is on its way to the server.
C8_Witness ==
    /\ forwarded_no = 2
    /\ run_pc = "fwd_write"
    /\ relay_open
    /\ upstream = <<pkt>>

\* C9: once close() has set closing_, the session calls neither evaluate nor
\* evaluate_error again.
C9_NoEvaluationAfterClose == [][closing_ => eval_calls' = eval_calls]_vars

\* C10: once close() was called, run terminates, whatever the peers send or
\* do not send.
C10_CloseTerminatesRun == closing_ ~> run_pc = "done"

(***************************************************************************)
(* The session lifecycle                                                   *)
(***************************************************************************)
SessionStates ==
    {"kHandshaking", "kReady", "kProcessingQuery", "kClosing", "kClosed"}

\* The documented lifecycle: Handshaking -> Ready, Ready <-> ProcessingQuery,
\* any state -> Closing, Closing -> Closed.
LifecycleEdges ==
    {<<"kHandshaking", "kReady">>, <<"kReady", "kProcessingQuery">>,
     <<"kProcessingQuery", "kReady">>, <<"kClosing", "kClosed">>}
        \cup {<<s, "kClosing">> : s \in SessionStates \ {"kClosing"}}

\* C11: state_ changes only along the documented lifecycle edges; in
\* particular kClosed is entered only from kClosing.
C11_LifecycleTransitions ==
    [][state_' # state_ => <<state_, state_'>> \in LifecycleEdges]_vars

\* C12: whenever run has ended, by whatever path, the close rites were
\* performed: state_ is kClosed, the disconnect was logged, both sockets
\* were shut down, and on_connection_close was called exactly once for the
\* one on_connection_open.
C12_CloseRites ==
    run_pc = "done" =>
        /\ state_ = "kClosed"
        /\ \E k \in 1..Len(conn_log) : conn_log[k] = "disconnect"
        /\ client_shut /\ server_shut
        /\ stats_conn = [opened |-> 1, closed |-> 1]

\* The io_context resumes every coroutine that can be resumed, and connects
\* and writes end without the peer sending anything; nothing is assumed
\* about clients connecting or peers sending.
SpecServerFair ==
    /\ SpecServer
    /\ WF_vars(AcceptStarts \/ AcceptReturns)
    /\ \A s \in Connections :
           WF_vars(SessionAwaits(s) \/ SessionReturns(s)) /\ WF_vars(WriteEnds(s))

\* C13: after stop() the session registry eventually becomes empty and the
\* event loop is then stopped, and the event loop is never stopped while a
\* session is registered.
C13_ShutdownCompletes ==
    /\ stopping_ ~> (sessions_ = {} /\ io_stopped)
    /\ [](io_stopped => sessions_ = {})

\* C14: a connection accepted after stop() was called never becomes a
\* session (none is created, registered or run for it) and its socket is
\* closed as soon as the accept loop has it; during the shutdown the
\* registry takes no new session.
C14_NoSessionAfterStop ==
    /\ [](\A c \in after_stop :
            /\ conn_fate[c] \in {"accepted", "closed"}
            /\ acc_conn # c => conn_fate[c] = "closed")
    /\ [][stopping_ =>
            /\ sessions_' \subseteq sessions_
            /\ next_session_id_' = next_session_id_
            /\ \A s \in Connections : sess[s].io = "none" => sess'[s].io = "none"]_vars

C14_Witness ==
    /\ stopping_
    /\ \E c \in after_stop : conn_fate[c] = "closed"
    /\ acc_pc = "done"
    /\ sessions_ # {}


C16_DecidedAgainstReloaded ==
    \A t \in Evaluators :
        (/\ ev[t].pc = "returned"
         /\ ev[t].after_reload.returned
         /\ Cardinality(ev[t].installed) = 1) =>
            /\ ev[t].result =
                   evaluate(ev[t].after_reload.config, ev[t].query, AppSession, Noon)
            /\ ev[t].after_reload.config.null => ev[t].result = Block("no-config")

\* A call that started after reload(nullptr) has returned.
C16_Witness ==
    \E t \in Evaluators :
        /\ ev[t].pc = "returned"
        /\ ev[t].after_reload = Reloaded(NoConfig)
        /\ ev[t].installed = {NoConfig}
        /\ ev[t].result = Block("no-config")

\* C17: a hang-up reload whose policy file fails to load leaves config_ as it
\* was, and no hang-up reload replaces a snapshot by null.
C17_FailedReloadKeepsSnapshot ==
    [][PolicyReload =>
          /\ ~LoadedPolicy(policy_file).ok => config_' = config_
          /\ config_'.null => config_.null]_vars

\* A hang-up reload failed while a policy was installed.
C17_Witness == reload_outcome = "kept" /\ ~config_.null


\* The successors of each state in the state graph of the handshake.
HandshakeGraph ==
    [state \in HandshakeStates |->
        CASE state = "kWaitServerGreeting" -> {"kWaitClientResponse"}
          [] state = "kWaitClientResponse" -> {"kWaitServerAuth"}
          [] state = "kWaitServerAuth" ->
               {"kDone", "kFailed", "kWaitClientAuthSwitch", "kWaitClientMoreData",
                "kWaitServerMoreData"}
          [] state = "kWaitClientAuthSwitch" -> {"kWaitServerAuthSwitch"}
          [] state = "kWaitServerAuthSwitch" -> {"kDone", "kFailed", "kWaitClientMoreData"}
          [] state = "kWaitClientMoreData" -> {"kWaitServerMoreData"}
          [] state = "kWaitServerMoreData" ->
               {"kDone", "kFailed", "kWaitClientMoreData", "kWaitServerMoreData"}
          [] OTHER -> {}]

\* The packet would start another round trip of the authentication.
StartsRoundTrip(state, payload) ==
    \/ /\ state \in {"kWaitServerAuthSwitch", "kWaitServerMoreData"}
       /\ classify_auth_response(payload) = "kAuthMoreData"
    \/ /\ state = "kWaitServerMoreData"
       /\ classify_auth_response(payload) = "kUnknown"

\* C18: in kWaitServerAuthSwitch or kWaitServerMoreData with round_trips at
\* or above kMaxRoundTrips, a packet that would start another round trip
\* (AuthMoreData, or an Unknown first byte in kWaitServerMoreData) gets a
\* MalformedPacket error, not a transition.
C18_LoopCap ==
    (/\ hsm_pc = "done"
     /\ hsm_rounds >= kMaxRoundTrips
     /\ StartsRoundTrip(hsm_state, hsm_payload)) =>
        hsm_result = HandshakeError(kMalformedPacket)

\* The cap was hit exactly by an unclassified packet in kWaitServerMoreData.
C18_Witness ==
    /\ hsm_pc = "done"
    /\ hsm_rounds = kMaxRoundTrips
    /\ hsm_state = "kWaitServerMoreData"
    /\ classify_auth_response(hsm_payload) = "kUnknown"
    /\ ~hsm_result.ok

\* C19: process_handshake_packet is total.  In a non-terminal state it
\* returns a transition to a successor of the state in the state graph, or a
\* MalformedPacket error; in kDone and kFailed it returns an InternalError
\* error.
C19_Total ==
    hsm_pc = "done" =>
        IF hsm_state \in {"kDone", "kFailed"}
        THEN hsm_result = HandshakeError(kInternalError)
        ELSE \/ hsm_result = HandshakeError(kMalformedPacket)
             \/ /\ hsm_result.ok
                /\ hsm_result.next_state \in HandshakeGraph[hsm_state]

\* An unclassifiable reply to the login was processed.
C19_Witness ==
    /\ hsm_pc = "done"
    /\ hsm_state = "kWaitServerAuth"
    /\ classify_auth_response(hsm_payload) = "kUnknown"
    /\ hsm_result.ok
    /\ hsm_result.next_state = "kFailed"

\* C20: a handshake relays at most one AuthSwitchRequest to the client; an
\* AuthSwitchRequest read in kWaitServerAuthSwitch or kWaitServerMoreData
\* ends the handshake with MalformedPacket and is not written to the client.
C20_OneAuthSwitch ==
    /\ [](hs_log.auth_switches <= 1)
    /\ [][(/\ run_pc = "hs_read"
           /\ ReadReturned
           /\ io = "ok"
           /\ hs_state \in {"kWaitServerAuthSwitch", "kWaitServerMoreData"}
           /\ classify_auth_response(rx.payload) = "kAuthSwitch"
           /\ run_pc' # run_pc) =>
              /\ run_pc' = "done"
              /\ io' = "idle"
              /\ hs_log' = [hs_log EXCEPT !.error = kMalformedPacket,
                                           !.state = hs_state]]_vars

\* A handshake that had relayed an AuthSwitchRequest ended on a second one.
C20_Witness ==
    /\ run_pc = "done"
    /\ hs_log.auth_switches = 1
    /\ hs_log.error = kMalformedPacket
    /\ hs_log.state = "kWaitServerAuthSwitch"
    /\ classify_auth_response(rx.payload) = "kAuthSwitch"


\* The states in which relay_handshake reads an authentication reply of the
\* server.
ServerAuthStates == {"kWaitServerAuth", "kWaitServerAuthSwitch", "kWaitServerMoreData"}

\* relay_handshake has read a packet in one of these states and goes on.
HandshakeReplyStep(states) ==
    /\ run_pc = "hs_read"
    /\ ReadReturned
    /\ io = "ok"
    /\ hs_state \in states
    /\ run_pc' # run_pc

\* C21: an ERR or EOF answer of the server to the authentication is written
\* unchanged to the client before relay_handshake returns its failure; an
\* unclassifiable answer (TerminateNoRelay) is followed by no write before
\* the failure is returned.
C21_FailureRelay ==
    /\ [][(/\ HandshakeReplyStep(ServerAuthStates)
           /\ classify_auth_response(rx.payload) \in {"kError", "kEof"}) =>
              /\ run_pc' = "hs_write"
              /\ wire' = [to |-> "client", packet |-> rx]
              /\ hs_log'.error = "none"]_vars
    /\ [][(/\ run_pc = "hs_write"
           /\ hs_state \in ServerAuthStates
           /\ classify_auth_response(rx.payload) \in {"kError", "kEof"}
           /\ run_pc' # run_pc) =>
              /\ run_pc' = "done"
              /\ hs_log'.error = kMalformedPacket]_vars
    /\ [][(/\ HandshakeReplyStep(ServerAuthStates)
           /\ process_handshake_packet(hs_state, rx.payload, round_trips).action
                  = "kTerminateNoRelay") =>
              /\ run_pc' = "done"
              /\ wire' = NoWrite
              /\ hs_log'.error = kMalformedPacket]_vars

\* The server's ERR is being written to the client.
C21_Witness ==
    /\ run_pc = "hs_write"
    /\ hs_state = "kWaitServerAuth"
    /\ classify_auth_response(rx.payload) = "kError"
    /\ wire = [to |-> "client", packet |-> rx]


\* C22: handshake_done implies that db_user is the user name extracted from
\* the HandshakeResponse41 this session read, and it is set only when that
\* extraction succeeded and the server's OK has been received and passed on.
C22_DoneImpliesUser ==
    /\ [](ctx_.handshake_done =>
            /\ hs_log.response.read
            /\ hs_log.response.ok
            /\ ctx_.db_user = hs_log.response.user
            /\ hs_log.error = "none")
    /\ [][(ctx_'.handshake_done /\ ~ctx_.handshake_done) =>
              /\ run_pc = "hs_write"
              /\ io = "ok"
              /\ hs_state \in ServerAuthStates
              /\ classify_auth_response(rx.payload) = "kOk"
              /\ wire = [to |-> "client", packet |-> rx]]_vars

\* The handshake of user app is done.
C22_Witness ==
    /\ ctx_.handshake_done
    /\ ctx_.db_user = Str(<<"a","p","p">>)
    /\ hs_log.response.ok
    /\ run_pc = "cmd_read"


\* C23: when the fields of the client's HandshakeResponse cannot be
\* extracted, nothing of that packet is written to the server, the handshake
\* fails with MalformedPacket and run returns.
C23_MalformedResponseNotForwarded ==
    /\ [][(/\ HandshakeReplyStep({"kWaitClientResponse"})
           /\ ~extract_handshake_response_fields(rx.payload).ok) =>
              /\ run_pc' = "done"
              /\ wire' = NoWrite
              /\ hs_log'.error = kMalformedPacket
              /\ state_' = "kClosed"]_vars
    /\ []((run_pc = "hs_write" /\ hs_state = "kWaitClientResponse") =>
              extract_handshake_response_fields(rx.payload).ok)
    /\ [](run_pc = "done" => wire = NoWrite)

\* A session ended on a HandshakeResponse cut short after its fixed part.
C23_Witness ==
    /\ run_pc = "done"
    /\ hs_log.state = "kWaitClientResponse"
    /\ hs_log.response.read
    /\ ~hs_log.response.ok
    /\ hs_log.error = kMalformedPacket
    /\ wire = NoWrite


BlockReplyReturns == run_pc = "block_write" /\ run_pc' # "block_write"

\* C24: a blocked COM_QUERY is answered with one ERR packet to the client,
\* code 1045 and the sequence id after the request's (mod 256); when that
\* write returns the query is counted as blocked, once, state_ is kReady and
\* the session is back at the top of its command loop.
C24_BlockedQueryAnswered ==
    /\ [][(run_pc = "cmd_read" /\ run_pc' # "cmd_read" /\ io = "ok"
             /\ ShouldBlock(policy_result')) =>
              /\ run_pc' = "block_write"
              /\ extract_command(rx).command_type = "kComQuery"]_vars
    /\ [](run_pc = "block_write" =>
              /\ wire.to = "client"
              /\ wire.packet.sequence_id = (pkt.sequence_id + 1) % 256
              /\ SubBytes(wire.packet.payload, 0, 3) = <<255, 21, 4>>
              /\ client_err = <<wire.packet>>
              /\ upstream = <<>>
              /\ stats_on_query = "none")
    /\ [][BlockReplyReturns =>
              /\ stats_on_query' = "blocked"
              /\ \/ run_pc' = "cmd_read" /\ state_' = "kReady" /\ wire' = NoWrite
                 \/ closing_ /\ run_pc' = "done"]_vars
    /\ [][(stats_on_query' = "blocked" /\ stats_on_query # "blocked") =>
              BlockReplyReturns]_vars

\* A blocked query with sequence id 255 was answered with sequence id 0 and
\* counted, and the session is reading the next command.
C24_Witness ==
    /\ QueryInHand
    /\ pkt.sequence_id = 255
    /\ client_err # <<>>
    /\ client_err[1].sequence_id = 0
    /\ stats_on_query = "blocked"
    /\ run_pc = "cmd_read"
    /\ state_ = "kReady"
    /\ ~closing_


\* The command bytes map_command_byte knows.
AcceptedCommandBytes == {1, 2, 3, 4, 5, 6, 7, 9, 10, 11, 12, 14, 22, 23, 25, 26}

NotACommand(packet) ==
    packet.payload = <<>> \/ packet.payload[1] \notin AcceptedCommandBytes

\* C25: a client packet with an empty payload or an unknown command byte is
\* never written to the server; on reading one the session leaves the
\* command loop and closes.
C25_MalformedCommandClosesSession ==
    /\ [][(run_pc = "cmd_read" /\ run_pc' # "cmd_read" /\ io = "ok"
             /\ NotACommand(rx)) =>
              /\ run_pc' = "done"
              /\ wire' = NoWrite
              /\ upstream' = <<>>
              /\ forwarded_no' = forwarded_no
              /\ state_' = "kClosed"
              /\ client_shut' /\ server_shut']_vars
    /\ []((run_pc \in {"fwd_write", "quit_write"}) =>
              wire.to = "server" /\ ~NotACommand(wire.packet))
    /\ []((run_pc \notin {"hs_write", "fwd_write", "quit_write"}) =>
              wire.to # "server")

\* The session closed on a packet with the unknown command byte 8, nothing
\* of it forwarded.
C25_Witness ==
    /\ run_pc = "done"
    /\ state_ = "kClosed"
    /\ pkt = Packet(0, <<8>>)
    /\ upstream = <<>>
    /\ wire = NoWrite
    /\ ctx_.handshake_done


\* C26: in a response relay every packet read from the server, the terminal
\* one included, is written to the client as it was read (same sequence id,
\* same payload), once, before the next packet is read.
C26_RelayIsTransparent ==
    /\ [][(run_pc = "relay_read" /\ run_pc' # "relay_read" /\ io = "ok") =>
              /\ run_pc' = "relay_write"
              /\ wire' = [to |-> "client", packet |-> rx]
              /\ rx' = rx]_vars
    /\ [](run_pc = "relay_write" => wire = [to |-> "client", packet |-> rx])
    /\ [][(run_pc = "relay_write" /\ run_pc' # "relay_write") =>
              /\ run_pc' \in {"relay_read", "cmd_read", "done"}
              /\ wire' = NoWrite]_vars
    /\ []((relay_open /\ wire.to = "client") => run_pc = "relay_write")
    /\ [][(run_pc = "relay_write" /\ run_pc' = "cmd_read") => io = "ok"]_vars

\* The row EOF of a result set, the last packet of the response, is on its
\* way to the client.
C26_Witness ==
    /\ run_pc = "relay_write"
    /\ relay.state = "kRows"
    /\ IsEofPacket(rx.payload)
    /\ wire = [to |-> "client", packet |-> rx]
    /\ io = "ok"

\* A packet that is neither empty, nor an ERR, nor out of sequence was passed
\* to the client while the relayer was reading column definitions.
ColumnDefsStep ==
    /\ run_pc = "relay_write" /\ run_pc' # "relay_write" /\ io = "ok"
    /\ relay.state = "kColumnDefs"
    /\ rx.payload # <<>>
    /\ rx.payload[1] # 255
    /\ ~(rx.sequence_id < relay.prev_seq_id /\ relay.prev_seq_id # 255)

\* C27: in kColumnDefs an EOF packet and a final OK packet both end the
\* column definitions; every other packet counts as a column definition.
C27_ColumnDefsTerminators ==
    [][ColumnDefsStep =>
         IF is_metadata_terminator_packet(rx.payload)
         THEN relay'.state # "kColumnDefs"
         ELSE \/ relay' = [relay EXCEPT !.prev_seq_id = rx.sequence_id,
                                        !.column_defs_read = relay.column_defs_read + 1]
              \/ run_pc' \in {"cmd_read", "done"}]_vars


(***************************************************************************)
(* The statistics collector                                                *)
(***************************************************************************)
\* No call of an update method is in progress.
UpdatesReturned == \A t \in Threads : caller[t].pc = "ready"

\* The calls made so far are open-then-close pairs: every thread closed what
\* it opened, and nothing else.
PairsOnly == ~unpaired /\ \A t \in Threads : caller[t].owed = 0

\* C28: after N open-then-close pairs, run by the threads in any
\* interleaving, total_connections is N and active_sessions is 0.
C28_PairsBalance ==
    (UpdatesReturned /\ PairsOnly) =>
        /\ total_connections_ = opened
        /\ active_sessions_ = 0

\* Each thread has run one pair, with nothing else.
C28_Witness ==
    /\ UpdatesReturned
    /\ PairsOnly
    /\ opened = MaxThreads
    /\ \A t \in Threads : caller[t].calls = 2
    /\ total_connections_ = MaxThreads
    /\ active_sessions_ = 0

\* C29: whatever the interleaving of on_connection_open and
\* on_connection_close, more closes than opens included, active_sessions_ is
\* never decremented at zero: it never exceeds the number of opens.
C29_NoUnderflow ==
    /\ [](active_sessions_ <= opened)
    /\ [][active_sessions_ = 0 => active_sessions_' \in {0, 1}]_vars

\* C30: every StatsSnapshot returned by snapshot(), also one taken while
\* calls of on_query are in progress, has blocked_queries <= total_queries.
C30_SnapshotBlockedAtMostTotal == snap.blocked_queries <= snap.total_queries


\* C31: every StatsSnapshot returned by snapshot(), also one taken while
\* other threads call on_connection_open and on_connection_close, has
\* active_sessions <= total_connections.
C31_SnapshotActiveAtMostTotal == snap.active_sessions <= snap.total_connections


\* C32: once admission control has set the health status to kUnhealthy, the
\* status is restored to kHealthy when a session has ended and
\* active_sessions is below max_connections.
C32_HealthRestored ==
    (/\ health = "kUnhealthy"
     /\ ~stopping_
     /\ max_connections > 0
     /\ active_sessions < max_connections)
        ~> (health = "kHealthy" \/ stopping_)


\* The ';' of sql outside strings and comments.
TopLevelSemicolons(sql) == {k \in TopLevel(sql, 0) : At(sql, k) = chSemicolon}

\* Exactly one ';' outside strings and comments, and only whitespace after it.
HasTrailingSemicolonOnly(sql) ==
    /\ Cardinality(TopLevelSemicolons(sql)) = 1
    /\ \A k \in TopLevelSemicolons(sql) :
           \A m \in (k + 1)..(Len(sql) - 1) : IsSpace(At(sql, m))

\* C33: SQL with exactly one ';' outside strings and comments, followed only
\* by whitespace, is not rejected as multi-statement: parse succeeds and
\* classifies the statement by its first keyword (SELECT for the inputs of
\* the harness).
C33_TrailingSemicolonAllowed ==
    (p_pc = "done" /\ HasTrailingSemicolonOnly(p_sql))
        => p_result.ok /\ p_result.command = "kSelect"


\* The response to a forwarded COM_QUERY is being relayed.
RelayingQueryResponse ==
    QueryInHand /\ relay_open /\ run_pc \in {"relay_read", "relay_write"}

\* C34: close() called while the response to a forwarded COM_QUERY is being
\* relayed lets the relay go on: the call ends none of its reads and writes,
\* and the session then terminates only after the last packet of the
\* response was written to the client, unless a peer fails.
C34_CloseLetsRelayFinish ==
    /\ [][(~closing_ /\ closing_' /\ RelayingQueryResponse) => io' = io]_vars
    /\ [][(closing_ /\ RelayingQueryResponse /\ run_pc' = "done") =>
              \/ io = "err"
              \/ run_pc = "relay_write" /\ io = "ok" /\ stats_on_query' = "passed"]_vars


\* C35: for every byte sequence that MysqlPacket::parse accepts,
\* serialize(parse(data)) equals data.
C35_SerializeParseRoundTrip ==
    pk_pc = "serialized" => pk_bytes = pk_data


\* The packets a handshake relays when every counted round trip is used:
\* two for each of them, and the greeting, the HandshakeResponse, the first
\* authentication reply, one uncounted fast-auth notice, the verdict and
\* one more.
HandshakeRelayBound == 2 * kMaxRoundTrips + 6

\* C36: relay_handshake terminates after a bounded number of relayed
\* packets: no server behaviour, a stream of fast-auth AuthMoreData packets
\* in kWaitServerAuth or kWaitServerMoreData included, keeps the loop
\* running past what the round-trip cap allows.
C36_HandshakeRelaysBounded == hs_log.relayed <= HandshakeRelayBound


\* Where run is between the end of relay_handshake and its own end.
InCommandLoop ==
    run_pc \in {"cmd_read", "quit_write", "block_write", "stmt_err_write", "fwd_write",
                "relay_read", "relay_write"}

\* C37: no client packet is interpreted as a command, evaluated against the
\* policy or forwarded upstream as a command unless relay_handshake has
\* returned success: the OK of the server was relayed to the client and
\* handshake_done is true.
C37_NoCommandBeforeHandshakeDone ==
    /\ []((InCommandLoop \/ cmd_no > 0 \/ eval_calls > 0 \/ forwarded_no > 0
               \/ pkt # NoPacket \/ upstream # <<>>)
              => /\ ctx_.handshake_done
                 /\ hs_state = "kDone"
                 /\ hs_log.error = "none")
    /\ [][(~ctx_.handshake_done /\ ctx_'.handshake_done)
              => /\ run_pc = "hs_write"
                 /\ io = "ok"
                 /\ wire.to = "client"
                 /\ classify_auth_response(wire.packet.payload) = "kOk"]_vars

C37_Witness ==
    /\ ctx_.handshake_done
    /\ cmd_no > 0
    /\ eval_calls > 0
    /\ forwarded_no > 0
    /\ run_pc = "relay_read"


StmtCloseInHand == pkt.payload # <<>> /\ pkt.payload[1] = 25

\* relay_server_response awaits the first packet of the reply to a
\* COM_STMT_CLOSE, to which a server sends no reply.
AwaitsReplyToStmtClose ==
    /\ run_pc = "relay_read"
    /\ io = "pending"
    /\ relay.state = "kFirst"
    /\ StmtCloseInHand

\* C39: for every accepted non-query command the session forwards, when
\* the server replies as MySQL prescribes the relayer returns once the reply
\* is complete and the session reads the next client command; taken for
\* COM_STMT_CLOSE, whose reply is complete without a packet, the session
\* does not stay waiting for the server.
C39_NonQueryRelayReturns == AwaitsReplyToStmtClose ~> ~AwaitsReplyToStmtClose


\* C40: for every well-formed classic result set, those of more than 250
\* columns or more than 255 packets included, the relayer returns exactly
\* after forwarding the final terminator: not before it, and without
\* awaiting a packet behind it.
C40_ReturnsAtFinalTerminator ==
    rs_pc \in {"relaying", "returned"}
        => (rs_pc = "returned"
                <=> rs_read = ResultSetLength(rs_set.columns, rs_set.rows))

====
